---------------------------- MODULE Spec2Model ----------------------------
(***************************************************************************)
(* A model of the Gong MCP adapter (src/src/index.ts): the CallTool        *)
(* handler, the two process-wide caches it shares (cachedUserId, and       *)
(* userCache with usersLoaded), the pagination loops, the default-user     *)
(* resolution, the call normalizer and the aggregate reads.                *)
(*                                                                         *)
(* One action is one stretch of the handler between two suspension points  *)
(* (awaits): the upstream answers the request in flight and the handler    *)
(* runs on to its next request or to its return.                           *)
(*                                                                         *)
(* Values.  A JavaScript value that may be undefined is a sequence of      *)
(* length 0 (undefined) or 1 (the value).  Display names are sequences of  *)
(* one-character strings, user identifiers are sequences of digits, call   *)
(* fields are atomic strings with "" the empty string, dates YYYY-MM-DD    *)
(* are triples <<y, m, d>>.                                                *)
(***************************************************************************)
EXTENDS Integers, Sequences, FiniteSets, TLC

\* ------------------------------------------------------------------ bounds

\* Items (users, calls) the upstream serves to one pagination loop.
MaxItems == 2
\* Items on one page.
MaxPageLen == 1
\* Pages of a cursor chain the upstream serves items on.
MaxChain == 2
\* Pages past the safety cap the upstream is still asked for in one loop.
MaxOverrun == 1
\* Days the wall clock advances.
MaxTicks == 1
\* Fields a raw call record given to the normalizer alone carries.
MaxFields == 2
\* Shapes of detail the upstream answers GET /calls/{id} with.
MaxDetails == 5
MaxLines == 2

\* The pagination guard `safety < 50`.
SafetyCap == 50
\* daysBack when the caller gives none.
DefaultDaysBack == 5

\* -------------------------------------------------------------------- state

VARIABLES
  world,         \* what callers send and the upstream holds (fixed at the start)
  env,           \* process.env: GONG_USER_ID and GONG_USER_FULL_NAME
  cachedUserId,  \* the resolved default user (undefined for null)
  userCache,     \* Map id -> display name
  usersLoaded,   \* whether the directory has been loaded
  envFile,       \* the .env file in the working directory
  clock,         \* the local date, as a day number
  call,          \* per handler slot: the invocation it runs
  fin,           \* the input of a function taken alone: the raw record given
                 \* to normalizeCallRecord, the call made of GongClient
  fout           \* its output: the canonical record, the request sent

vars == <<world, env, cachedUserId, userCache, usersLoaded, envFile, clock, call, fin, fout>>

\* --------------------------------------------------------- optional values

UNDEF == <<>>
Some(v) == <<v>>
IsDef(o) == o /= UNDEF

\* Truthiness of an optional atomic string (undefined and "" are falsy).
Truthy(o) == o /= UNDEF /\ o[1] /= ""
\* Truthiness of an optional sequence-string (names, identifiers).
TruthySeq(o) == o /= UNDEF /\ o[1] /= <<>>

\* a || b
OrElse(a, b) == IF Truthy(a) THEN a ELSE b
OrElseSeq(a, b) == IF TruthySeq(a) THEN a ELSE b
\* a ?? b
Coalesce(a, b) == IF IsDef(a) THEN a ELSE b

\* ------------------------------------------------------------------ strings

UpperToLower == [c \in {"A", "B", "C"} |-> CASE c = "A" -> "a" [] c = "B" -> "b" [] c = "C" -> "c"]

\* String.prototype.toLowerCase
ToLowerCase(s) == [i \in 1..Len(s) |-> IF s[i] \in DOMAIN UpperToLower THEN UpperToLower[s[i]] ELSE s[i]]

RECURSIVE TrimStart(_)
TrimStart(s) == IF s /= <<>> /\ Head(s) = " " THEN TrimStart(Tail(s)) ELSE s

RECURSIVE TrimEnd(_)
TrimEnd(s) == IF s /= <<>> /\ s[Len(s)] = " " THEN TrimEnd(SubSeq(s, 1, Len(s) - 1)) ELSE s

\* String.prototype.trim
Trim(s) == TrimEnd(TrimStart(s))

\* String.prototype.includes
Includes(s, t) == \E i \in 0..(Len(s) - Len(t)) : SubSeq(s, i + 1, i + Len(t)) = t

\* Code-unit order of two sequences of integers (digit strings, dates).
RECURSIVE LexLess(_, _)
LexLess(a, b) ==
  IF b = <<>> THEN FALSE
  ELSE IF a = <<>> THEN TRUE
  ELSE IF Head(a) /= Head(b) THEN Head(a) < Head(b)
  ELSE LexLess(Tail(a), Tail(b))

\* a.localeCompare(b) on digit strings: -1, 0, 1.
LocaleCompare(a, b) == IF a = b THEN 0 ELSE IF LexLess(a, b) THEN -1 ELSE 1

\* ----------------------------------------------------------------- calendar

\* The civil date of a day number (days since 1970-01-01), as Date's
\* getFullYear, getMonth() + 1 and getDate give it.
CivilFromDays(z0) ==
  LET z == z0 + 719468
      era == z \div 146097
      doe == z - era * 146097
      yoe == (doe - doe \div 1460 + doe \div 36524 - doe \div 146096) \div 365
      doy == doe - (365 * yoe + yoe \div 4 - yoe \div 100)
      mp == (5 * doy + 2) \div 153
      d == doy - (153 * mp + 2) \div 5 + 1
      m == IF mp < 10 THEN mp + 3 ELSE mp - 9
      y == yoe + era * 400 + (IF m <= 2 THEN 1 ELSE 0)
  IN <<y, m, d>>

\* formatYmd(date): the string YYYY-MM-DD, its three zero-padded fields.
formatYmd(day) == CivilFromDays(day)

\* addDays(date, delta)
addDays(day, delta) == day + delta

\* toDate > today on two YYYY-MM-DD strings: the comparison of strings.
StrGreater(a, b) == LexLess(b, a)


\* ------------------------------------------------------- upstream: the users

\* The names used below, as strings of characters.
NameAB == <<"A", " ", "B">>
NameABpad == <<"a", " ", "b", " ">>
NameA == <<"A">>
NameB == <<"B">>
NameC == <<"C">>

\* A GongUser: every field optional as the upstream sends it.
GongUser(id, name, fullName, firstName, lastName, emailAddress) ==
  [id |-> id, name |-> name, fullName |-> fullName, firstName |-> firstName,
   lastName |-> lastName, emailAddress |-> emailAddress, email |-> UNDEF]

\* Users the upstream may list: first+last only; a padded lower-case fullName;
\* a legacy name and no id; a fullName that differs from first+last.
UserA == GongUser(Some(<<2>>), UNDEF, UNDEF, Some(NameA), Some(NameB), UNDEF)
UserB == GongUser(Some(<<1, 0>>), UNDEF, Some(NameABpad), UNDEF, UNDEF, UNDEF)
UserC == GongUser(UNDEF, Some(NameAB), UNDEF, UNDEF, UNDEF, Some(NameC))
UserD == GongUser(Some(<<1>>), UNDEF, Some(NameAB), Some(NameC), UNDEF, UNDEF)
UserPool == {UserA, UserB, UserC, UserD}

\* The sequences over S of length at most n.
SeqsUpTo(S, n) == UNION {[1..k -> S] : k \in 0..n}

\* The users of one page of GET /users.
UsersPages == SeqsUpTo(world.users, world.pageLen)

\* ------------------------------------------------------- upstream: the calls

\* A raw call record: the fields normalizeCallRecord reads, and two it does
\* not read, callId and hostUserId (the names the canonical record uses).
\* metaData is undefined or a record of the same fields.
RawFields == {"id", "title", "subject", "started", "startTime", "startedAt",
              "scheduled", "ended", "endTime", "endedAt", "duration",
              "primaryUserId", "url", "callId", "hostUserId"}
EmptyFlat == [f \in RawFields |-> UNDEF]
RawCall(flat, meta) == [flat |-> flat, metaData |-> meta]
Flat(fields) == [f \in RawFields |-> IF f \in DOMAIN fields THEN Some(fields[f]) ELSE UNDEF]

\* Start timestamps the upstream sends, and Date's reading of them:
\* new Date(String(x)).getTime() in minutes since the epoch, NaN as <<>>.
TsJan1 == "2024-01-01T09:00Z"
TsJan2 == "2024-01-02T10:00Z"
TsBad == "garbage"
getTime(ts) ==
  CASE ts = TsJan1 -> Some(28401660)
    [] ts = TsJan2 -> Some(28403160)
    [] OTHER -> UNDEF

\* What GET /calls/{id} may answer with as detail.call: the first
\* world.details of these.
DetailShapes(id) ==
  << RawCall(Flat([id |-> id, title |-> "T", started |-> TsJan2, primaryUserId |-> <<2>>]), UNDEF),
     RawCall(Flat([id |-> id, startTime |-> TsJan1, duration |-> 125]), UNDEF),
     RawCall(Flat([id |-> id]), UNDEF),
     RawCall(Flat([id |-> id, started |-> TsBad]), UNDEF),
     RawCall(EmptyFlat, Some(Flat([title |-> "T", scheduled |-> TsJan1]))) >>
DetailPool(id) == {DetailShapes(id)[i] : i \in 1..world.details \cap DOMAIN DetailShapes(id)}

\* What POST /calls/extensive may list.
ExtensivePool ==
  { RawCall(EmptyFlat, Some(Flat([id |-> "c1", title |-> "T", started |-> TsJan1]))),
    RawCall(Flat([id |-> "c2", subject |-> "S", startedAt |-> TsJan2]), UNDEF),
    RawCall(EmptyFlat, UNDEF) }
ExtensivePages == SeqsUpTo(ExtensivePool, world.pageLen)

\* ---------------------------------------------------- upstream: the activity

\* The users the upstream has activity for, and for each the calls of the one
\* day of the window: attended and hosted.
ActivityUsers == {<<2>>, <<1, 0>>}
callsAttended(u) == IF u = <<2>> THEN <<"c1">> ELSE <<"c3", "c1">>
callsAsHost(u) == IF u = <<2>> THEN <<"c2", "c1">> ELSE <<>>

\* One entry of usersDetailedActivities.
UserActivity(u) ==
  [userId |-> u,
   userDailyActivityStats |-> << [callsAttended |-> callsAttended(u), callsAsHost |-> callsAsHost(u)] >>]

\* The orders in which the upstream lists the users of a set.
Orderings(S) == {s \in UNION {[1..n -> S] : n \in {Cardinality(S)}} : \A i, j \in DOMAIN s : i /= j => s[i] /= s[j]}

\* usersDetailedActivities of an answer to a request with filter.userIds
\* (undefined: no filter): undefined, empty, or the activity of the users
\* asked for that the upstream knows.
ActivityAnswers(userIds) ==
  LET asked == IF userIds = UNDEF THEN ActivityUsers
               ELSE {userIds[1][i] : i \in DOMAIN userIds[1]} \cap ActivityUsers
  IN {UNDEF, Some(<<>>)} \cup {Some([i \in DOMAIN o |-> UserActivity(o[i])]) : o \in Orderings(asked) \ {<<>>}}


\* ------------------------------------------------------------ the normalizer

\* A normalizer that reads the current names only.
normalizeCurrentOnly(raw) ==
  LET source == IF IsDef(raw.metaData) THEN raw.metaData[1] ELSE raw.flat
  IN [callId |-> source.id, title |-> source.title, startedAt |-> source.started,
      endedAt |-> source.ended, duration |-> source.duration, scheduled |-> source.scheduled,
      hostUserId |-> source.primaryUserId,
      gongUrl |-> OrElse(source.url,
                         IF Truthy(source.id) THEN Some("https://app.gong.io/call?id=" \o source.id[1]) ELSE UNDEF)]

\* normalizeCallRecord(raw): the canonical record.  source is metaData when
\* that is set, else the record itself.
normalizeCallRecord(raw) ==
  LET source == IF IsDef(raw.metaData) THEN raw.metaData[1] ELSE raw.flat
      started == OrElse(OrElse(OrElse(source.started, source.startTime), source.startedAt), source.scheduled)
      ended == OrElse(OrElse(source.ended, source.endTime), source.endedAt)
  IN [callId |-> source.id,
      title |-> OrElse(source.title, source.subject),
      startedAt |-> started,
      endedAt |-> ended,
      duration |-> source.duration,
      scheduled |-> source.scheduled,
      hostUserId |-> source.primaryUserId,
      gongUrl |-> OrElse(source.url,
                         IF Truthy(source.id) THEN Some("https://app.gong.io/call?id=" \o source.id[1]) ELSE UNDEF)]

\* A record with no field at all.
NoRecord(id) ==
  [callId |-> UNDEF, title |-> UNDEF, startedAt |-> UNDEF, endedAt |-> UNDEF,
   duration |-> UNDEF, scheduled |-> UNDEF, hostUserId |-> UNDEF, gongUrl |-> UNDEF]

\* The record pushed when GET /calls/{id} fails: { callId: id }.
Placeholder(id) ==
  [callId |-> Some(id), title |-> UNDEF, startedAt |-> UNDEF, endedAt |-> UNDEF,
   duration |-> UNDEF, scheduled |-> UNDEF, hostUserId |-> UNDEF, gongUrl |-> UNDEF]

\* ------------------------------------------------------------------ the sort

\* a.startedAt ? new Date(String(a.startedAt)).getTime() : 0, NaN as <<>>.
SortKey(c) == IF Truthy(c.startedAt) THEN getTime(c.startedAt[1]) ELSE Some(0)

\* The comparator of detailed.sort: left - right, which is NaN when either is;
\* Array.prototype.sort reads a NaN from its comparator as +0.
Comparator(a, b) ==
  LET left == SortKey(a)
      right == SortKey(b)
  IN IF left = UNDEF \/ right = UNDEF THEN 0 ELSE left[1] - right[1]

\* Whether the comparator is a consistent one on the elements of s: a strict
\* weak order.  Reflexivity, antisymmetry and transitivity of < hold of any
\* difference of numbers; what NaN breaks is the transitivity of "equal".
ConsistentComparator(s) ==
  \A i, j, k \in DOMAIN s :
    (Comparator(s[i], s[j]) = 0 /\ Comparator(s[j], s[k]) = 0) => Comparator(s[i], s[k]) = 0

IndexPermutations(n) == {f \in [1..n -> 1..n] : \A i, j \in 1..n : i /= j => f[i] /= f[j]}

\* The stable ascending order of s under the comparator: the permutation f
\* with s[f[i]] never after s[f[i+1]], ties in their original order.
StableOrders(s) ==
  {f \in IndexPermutations(Len(s)) :
     \A i, j \in 1..Len(s) : i < j =>
        \/ Comparator(s[f[i]], s[f[j]]) < 0
        \/ Comparator(s[f[i]], s[f[j]]) = 0 /\ f[i] < f[j]}

\* What detailed.sort(...) may leave in the array: the stable order when the
\* comparator is consistent (ECMAScript 2019), and an implementation-defined
\* permutation when it is not.
SortOutcomes(s) ==
  LET orders == IF ConsistentComparator(s) THEN StableOrders(s) ELSE IndexPermutations(Len(s))
  IN {[i \in 1..Len(s) |-> s[f[i]]] : f \in orders}


\* ------------------------------------------------------------ the .env file

\* The file is undefined (it does not exist) or its text: lines, and between
\* each two of them a line ending, "lf" or "crlf".  A line KEY=value is a key,
\* a value and the blanks before the key; the empty line has key "".
EnvLine(indent, key, val) == [indent |-> indent, key |-> key, val |-> val]
EnvText(lines, eols) == [lines |-> lines, eols |-> eols]

\* os.EOL of the platform the server runs on (the Docker image is Linux).
OsEol == "lf"

\* persistUserIdToEnv(userId): the file after the call when the write succeeds.
persistUserIdToEnv(userId, file) ==
  IF ~TruthySeq(userId) THEN file
  ELSE IF file = UNDEF THEN file
  ELSE LET current == file[1]
           lines == current.lines
           updated == \E i \in DOMAIN lines : lines[i].key = "GONG_USER_ID"
           mapped == [i \in DOMAIN lines |->
                        IF lines[i].key = "GONG_USER_ID"
                        THEN EnvLine(0, "GONG_USER_ID", userId[1]) ELSE lines[i]]
           nextLines == IF updated THEN mapped
                        ELSE Append(mapped, EnvLine(0, "GONG_USER_ID", userId[1]))
           next == EnvText(nextLines, [i \in 1..(Len(nextLines) - 1) |-> OsEol])
       IN IF next /= current THEN Some(next) ELSE file

\* ---------------------------------------------------------- tool arguments

ArgNames == {"fromDateTime", "toDateTime", "start_date", "end_date", "user_id",
             "user_ids", "userIds", "text", "fromDate", "toDate", "cursor",
             "daysBack", "name_filter", "callIds"}

\* An argument: absent, a string, a number or an array.
AUndef == [ty |-> "undefined"]
AStr(v) == [ty |-> "string", v |-> v]
\* A number is the fraction v / den: ANum(n) is the integer n.
ANumOver(n, d) == [ty |-> "number", v |-> n, den |-> d]
ANum(n) == ANumOver(n, 1)
AArr(a) == [ty |-> "array", v |-> a]

NoArgs == [f \in ArgNames |-> AUndef]
With(fields) == [f \in ArgNames |-> IF f \in DOMAIN fields THEN fields[f] ELSE AUndef]

\* typeof x === "string", and !(k in args) || typeof args[k] === "string"
IsString(a) == a.ty = "string"
AbsentOrString(a) == a.ty = "undefined" \/ a.ty = "string"
\* The value of a string argument, undefined otherwise.
StringOrUndef(a) == IF IsString(a) THEN Some(a.v) ELSE UNDEF

\* The first day of the model's clock: 2024-12-31, the day before the 55
\* years and 14 leap days from 1970-01-01 to 2025-01-01 are over.
Day0 == 55 * 365 + 14 - 1

ToolNames == {"list_calls", "list_calls_extensive", "activity_day_by_day",
              "my_calls_range", "my_calls_today", "get_users",
              "retrieve_transcripts", "bogus"}

\* The arguments a caller may send with each tool, as a list.
ToolArgs(name) ==
  CASE name = "list_calls" ->
         <<NoArgs, With([fromDateTime |-> AStr("2024-03-01T00:00:00Z")]), With([toDateTime |-> ANum(1)])>>
    [] name = "list_calls_extensive" ->
         <<NoArgs, With([user_ids |-> AArr(<< <<2>> >>), user_id |-> AStr(<<1>>)]),
           With([user_id |-> AStr(<<1, 0>>), userIds |-> AArr(<<>>)]),
           With([userIds |-> AStr(<<2>>)]),
           With([user_ids |-> AArr(<<>>), userIds |-> AArr(<< <<2>> >>)])>>
    [] name = "activity_day_by_day" ->
         <<NoArgs,
           With([fromDate |-> AStr(formatYmd(Day0 - 1)), toDate |-> AStr(formatYmd(Day0))]),
           With([fromDate |-> AStr(formatYmd(Day0 - 1)), toDate |-> AStr(formatYmd(Day0)),
                 userIds |-> AArr(<< <<2>> >>)]),
           With([fromDate |-> AStr(formatYmd(Day0 - 1)), toDate |-> AStr(formatYmd(Day0)),
                 userIds |-> AStr(<<2>>)]),
           With([fromDate |-> ANum(20241230), toDate |-> AStr(formatYmd(Day0))])>>
    [] name = "my_calls_range" ->
         <<NoArgs,
           With([toDate |-> AStr(formatYmd(Day0 + 1))]),
           With([fromDate |-> AStr(formatYmd(Day0 - 2)), toDate |-> AStr(formatYmd(Day0 + 2)),
                 userIds |-> AArr(<< <<2>> >>)]),
           With([fromDate |-> AStr(formatYmd(Day0 - 2)), toDate |-> AStr(formatYmd(Day0)),
                 userIds |-> AArr(<< <<9>> >>)]),
           With([fromDate |-> AStr(formatYmd(Day0 - 2))]),
           With([daysBack |-> ANum(0)]),
           With([daysBack |-> ANumOver(5, 2)]),
           With([fromDate |-> AStr(formatYmd(Day0 - 1)), toDate |-> AStr(formatYmd(Day0)),
                 daysBack |-> ANum(3)]),
           With([fromDate |-> ANum(20241230), toDate |-> AStr(formatYmd(Day0))])>>
    [] name = "get_users" ->
         <<NoArgs, With([name_filter |-> AStr(<<"C">>)]), With([name_filter |-> ANum(1)])>>
    [] name = "retrieve_transcripts" ->
         <<NoArgs, With([callIds |-> AArr(<<"c1", "c2">>)]), With([callIds |-> AStr("c1")])>>
    [] OTHER -> <<NoArgs>>


\* Handler slots: the invocations of the CallTool handler that may be in
\* flight.  The handler is an async function the server calls for each
\* request it reads; world.slots is how many requests the caller keeps in
\* flight at a time.
Procs == {1, 2}

\* No request in flight.
NoReq == [path |-> "none", cursor |-> 0, userIds |-> UNDEF, fromDate |-> UNDEF,
          toDate |-> UNDEF, callId |-> ""]
\* The requests of GongClient: getUsers, listCallsExtensive, activityDayByDay,
\* getCall, listCalls, retrieveTranscripts.
GetUsersReq(cursor) == [NoReq EXCEPT !.path = "/users", !.cursor = cursor]
ExtensiveReq(userIds, cursor) ==
  [NoReq EXCEPT !.path = "/calls/extensive", !.cursor = cursor, !.userIds = Some(userIds)]
ActivityReq(fromDate, toDate, userIds) ==
  [NoReq EXCEPT !.path = "/stats/activity/day-by-day", !.fromDate = Some(fromDate),
                !.toDate = Some(toDate), !.userIds = userIds]
GetCallReq(id) == [NoReq EXCEPT !.path = "/calls/{id}", !.callId = id]
ListCallsReq == [NoReq EXCEPT !.path = "/calls"]
TranscriptReq == [NoReq EXCEPT !.path = "/calls/transcript"]

\* No response yet.
NoResp == [isError |-> FALSE, text |-> <<>>, body |-> <<>>]

\* A slot: the invocation's name and arguments, the await it is suspended at
\* (pc), the request in flight, the handler's locals, and its response.
\* pages, served, seen, resolved and raised are history: the requests a
\* pagination loop has issued, the pages the upstream has served it, the
\* pages it has served getOrResolveMyUserId (kept until the handler's next
\* request is answered), what getOrResolveMyUserId ended with, and the error
\* the handler raised; heard is the requests for activity that have come
\* back, each with its outcome; loaded is the load of the directory the
\* invocation has completed: the identifiers it read and the cursor of the
\* last page, kept until its next request is answered.
Idle ==
  [pc |-> "idle", tool |-> "", args |-> NoArgs, req |-> NoReq,
   cursor |-> 0, safety |-> 0, matches |-> <<>>, acc |-> <<>>,
   userIds |-> <<>>, fromDate |-> UNDEF, toDate |-> UNDEF,
   ids |-> <<>>, detailed |-> <<>>, resp |-> NoResp,
   pages |-> 0, served |-> <<>>, seen |-> <<>>, resolved |-> <<>>, raised |-> <<>>,
   heard |-> <<>>, loaded |-> <<>>]

\* Errors the HTTP client raises: a non-2xx answer, the 30 s timeout.
UpstreamErrors == {"Request failed with status code 500", "timeout of 30000ms exceeded"}
\* The TypeError the handler raises on a body that is null.
MalformedError == "Cannot read properties of null"

\* A catch that returns the raised message as it is, as a success.
CatchBare(c, message) ==
  [c EXCEPT !.pc = "done", !.req = NoReq, !.raised = Some(message),
            !.resp = [isError |-> FALSE, text |-> <<message>>, body |-> <<>>]]

\* The catch of the CallTool handler: a raised Error becomes the response
\* { isError: true, text: `Error: ${error.message}` }.
CatchBoundary(c, message) ==
  [c EXCEPT !.pc = "done", !.req = NoReq, !.raised = Some(message),
            !.resp = [isError |-> TRUE, text |-> <<"Error: ", message>>, body |-> <<>>]]

\* return { content: [{ type: "text", text: JSON.stringify(body) }], isError: false }
Success(c, body) ==
  [c EXCEPT !.pc = "done", !.req = NoReq,
            !.resp = [isError |-> FALSE, text |-> <<>>, body |-> Some(body)]]

\* The default branch: { isError: true, text: `Unknown tool: ${name}` }.
UnknownTool(c) ==
  [c EXCEPT !.pc = "done", !.req = NoReq,
            !.resp = [isError |-> TRUE, text |-> <<"Unknown tool: ", c.tool>>, body |-> <<>>]]

\* A request is sent and the handler suspends at pc.
Await(c, pc, req) == [c EXCEPT !.pc = pc, !.req = req]


\* ------------------------------------------------- formatting the aggregate

\* formatTimeShort(iso): HH:MM of the local time (the image runs in UTC).
formatTimeShort(iso) ==
  IF ~Truthy(iso) THEN UNDEF
  ELSE CASE iso[1] = TsJan1 -> Some("09:00")
         [] iso[1] = TsJan2 -> Some("10:00")
         [] OTHER -> UNDEF

\* formatDuration(seconds): `${mins}m${pad2(secs)}s`, as <<mins, secs>>.
formatDuration(seconds) ==
  IF seconds = UNDEF THEN UNDEF ELSE Some(<<seconds[1] \div 60, seconds[1] % 60>>)

\* userCache.get(id)
MapGet(cache, id) == IF id \in DOMAIN cache THEN Some(cache[id]) ELSE UNDEF
\* userCache.set(id, name)
MapSet(cache, id, name) == [k \in DOMAIN cache \cup {id} |-> IF k = id THEN name ELSE cache[k]]

\* hostUserId ? userCache.get(hostUserId) || hostUserId : undefined
HostName(d, cache) ==
  IF TruthySeq(d.hostUserId) THEN OrElseSeq(MapGet(cache, d.hostUserId[1]), d.hostUserId) ELSE UNDEF

\* One entry of the result's calls.
ProjectCall(d, cache) ==
  [callId |-> d.callId, title |-> d.title, startedAt |-> d.startedAt, duration |-> d.duration,
   hostUserId |-> d.hostUserId, hostName |-> HostName(d, cache), gongUrl |-> d.gongUrl]

\* One line of formatted: the time, the title and the segments that are there.
FormatLine(d, cache) ==
  [time |-> OrElse(formatTimeShort(d.startedAt), Some("??:??")),
   title |-> OrElse(d.title, Some("Untitled")),
   dur |-> formatDuration(d.duration),
   host |-> HostName(d, cache),
   url |-> IF Truthy(d.gongUrl) THEN d.gongUrl ELSE UNDEF]

\* The success payload of my_calls_range and my_calls_today over the sorted
\* records.
AggregateBody(c, sorted, cache) ==
  [fromDate |-> c.fromDate, toDate |-> c.toDate, count |-> Len(sorted),
   calls |-> [i \in DOMAIN sorted |-> ProjectCall(sorted[i], cache)],
   formatted |-> [i \in DOMAIN sorted |-> FormatLine(sorted[i], cache)]]

\* A record of detailed, with its history: the identifier it was fetched for
\* and whether the fetch failed.
Entry(rec, id, failed) ==
  [callId |-> rec.callId, title |-> rec.title, startedAt |-> rec.startedAt,
   endedAt |-> rec.endedAt, duration |-> rec.duration, scheduled |-> rec.scheduled,
   hostUserId |-> rec.hostUserId, gongUrl |-> rec.gongUrl, origin |-> id, failed |-> failed]

\* ------------------------------------------------- the aggregate, backwards

\* The handler after the hydration loop: sort, format, return.
FinishAggregate(c, sorted, cache) ==
  Success([c EXCEPT !.detailed = sorted], AggregateBody(c, sorted, cache))

\* The handler after ensureUserCache(): the first GET /calls/{id}, or the
\* return when there is no identifier.
StartHydrate(c0, cache) ==
  LET c == [c0 EXCEPT !.cursor = 0, !.safety = 0, !.pages = 0, !.served = <<>>]
  IN IF c.ids = <<>> THEN FinishAggregate(c, <<>>, cache)
     ELSE Await([c EXCEPT !.detailed = <<>>], "getCall", GetCallReq(c.ids[1]))

\* await ensureUserCache() up to its first request: nothing when the
\* directory is loaded.
EnterEnsure(c, loaded, cache) ==
  IF loaded THEN StartHydrate(c, cache)
  ELSE Await([c EXCEPT !.cursor = 0, !.safety = 0, !.pages = 1, !.served = <<>>],
             "ensureUserCache", GetUsersReq(0))

\* all.add(id) for each id of a list, in order: a Set keeps insertion order.
RECURSIVE AddAll(_, _)
AddAll(all, list) ==
  IF list = <<>> THEN all
  ELSE AddAll(IF \E i \in DOMAIN all : all[i] = Head(list) THEN all ELSE Append(all, Head(list)),
              Tail(list))

RECURSIVE CollectDays(_, _)
CollectDays(all, days) ==
  IF days = <<>> THEN all
  ELSE CollectDays(AddAll(AddAll(all, Head(days).callsAttended), Head(days).callsAsHost), Tail(days))

RECURSIVE CollectUsers(_, _)
CollectUsers(all, users) ==
  IF users = <<>> THEN all
  ELSE CollectUsers(CollectDays(all, Head(users).userDailyActivityStats), Tail(users))

\* collectCallIdsFromActivities(users), as Array.from gives it.
collectCallIdsFromActivities(users) ==
  IF users = UNDEF THEN <<>> ELSE CollectUsers(<<>>, users[1])

\* The handler once it holds the activity to use: the identifiers, then
\* ensureUserCache().
AfterActivity(c, activities, loaded, cache) ==
  EnterEnsure([c EXCEPT !.ids = collectCallIdsFromActivities(activities)], loaded, cache)

\* The handler once it holds the user ids to ask for: its first request for
\* calls or activity.
ContinueWithUsers(c, userIds) ==
  LET d == [c EXCEPT !.userIds = userIds]
  IN CASE c.tool = "list_calls_extensive" ->
            Await([d EXCEPT !.cursor = 0, !.safety = 0, !.pages = 1, !.acc = <<>>, !.served = <<>>],
                  "listCallsExtensive", ExtensiveReq(userIds, 0))
       [] c.tool = "activity_day_by_day" ->
            Await(d, "activityDayByDay", ActivityReq(d.fromDate[1], d.toDate[1], Some(userIds)))
       [] c.tool = "my_calls_range" ->
            Await(d, "activity", ActivityReq(d.fromDate[1], d.toDate[1], Some(userIds)))
       [] c.tool = "my_calls_today" ->
            Await(d, "activity", ActivityReq(d.fromDate[1], d.toDate[1], Some(userIds)))

\* The handler after getOrResolveMyUserId() has returned userId.
AfterResolve(c, userId) ==
  ContinueWithUsers([c EXCEPT !.resolved = <<"ok", userId>>, !.matches = <<>>, !.cursor = 0], <<userId>>)

\* The history of the resolution is dropped when the next answer is read.
Forget(c) == [c EXCEPT !.seen = <<>>]

\* The history of the load is dropped when the next answer is read.
ForgetLoad(c) == [c EXCEPT !.loaded = <<>>]

\* ------------------------------------------------- getOrResolveMyUserId

\* A resolution that never finds its cache set.
CacheMiss(cached) == FALSE

\* The cache check of getOrResolveMyUserId.
CacheHit(cached) == TruthySeq(cached)

\* getOrResolveMyUserId() up to its first request: the slot, cachedUserId and
\* the .env file after it.
getOrResolveMyUserId(c, cached, environ, file) ==
  IF CacheHit(cached)
  THEN [c |-> AfterResolve(c, cached[1]), cached |-> cached, file |-> file]
  ELSE IF TruthySeq(environ.GONG_USER_ID)
  THEN [c |-> AfterResolve(c, environ.GONG_USER_ID[1]), cached |-> environ.GONG_USER_ID,
        file |-> persistUserIdToEnv(environ.GONG_USER_ID, file)]
  ELSE IF ~TruthySeq(environ.GONG_USER_FULL_NAME)
  THEN [c |-> CatchBoundary(c, "Set GONG_USER_ID or GONG_USER_FULL_NAME to resolve the default user."),
        cached |-> cached, file |-> file]
  ELSE [c |-> Await([c EXCEPT !.cursor = 0, !.matches = <<>>, !.pages = 1, !.seen = <<>>],
                    "getOrResolveMyUserId", GetUsersReq(0)),
        cached |-> cached, file |-> file]

\* u.firstName || ""
StrOf(o) == IF TruthySeq(o) THEN o[1] ELSE <<>>

\* The name of a user that resolution compares with the target.
candidateName(u) ==
  LET composite == Trim(StrOf(u.firstName) \o <<" ">> \o StrOf(u.lastName))
  IN ToLowerCase(Trim(IF composite /= <<>> THEN composite
                      ELSE IF TruthySeq(u.fullName) THEN u.fullName[1]
                      ELSE StrOf(u.name)))

\* Whether resolution pushes u to matches.
IsMatch(u, fullName) ==
  candidateName(u) /= <<>> /\ candidateName(u) = ToLowerCase(Trim(fullName))

\* The users of a page that match, in page order.
RECURSIVE MatchesOf(_, _)
MatchesOf(users, fullName) ==
  IF users = <<>> THEN <<>>
  ELSE (IF IsMatch(Head(users), fullName) THEN <<Head(users)>> ELSE <<>>) \o MatchesOf(Tail(users), fullName)

\* (a, b) => (a.id || "").localeCompare(b.id || "")
CompareById(a, b) == LocaleCompare(StrOf(a.id), StrOf(b.id))

\* matches.sort(...): a stable insertion under CompareById.
RECURSIVE InsertById(_, _)
InsertById(sorted, u) ==
  IF sorted = <<>> THEN <<u>>
  ELSE IF CompareById(u, Head(sorted)) < 0 THEN <<u>> \o sorted
  ELSE <<Head(sorted)>> \o InsertById(Tail(sorted), u)

RECURSIVE SortById(_)
SortById(matches) ==
  IF matches = <<>> THEN <<>>
  ELSE InsertById(SortById(SubSeq(matches, 1, Len(matches) - 1)), matches[Len(matches)])


\* ------------------------------------------------------------ the dispatch

\* isGongListCallsArgs
isGongListCallsArgs(args) ==
  AbsentOrString(args.fromDateTime) /\ AbsentOrString(args.toDateTime)

\* isGongRetrieveTranscriptsArgs: callIds a string or an array of strings.
isGongRetrieveTranscriptsArgs(args) ==
  args.callIds.ty = "string" \/ args.callIds.ty = "array"

\* isListCallsExtensiveArgs: user_ids ?? userIds is the one array checked.
isListCallsExtensiveArgs(args) ==
  LET userIds == IF args.user_ids.ty /= "undefined" THEN args.user_ids ELSE args.userIds
  IN /\ \A k \in {"start_date", "end_date", "user_id", "text"} : AbsentOrString(args[k])
     /\ userIds.ty = "undefined" \/ userIds.ty = "array"

\* Array.isArray(argObj.userIds) ? argObj.userIds.filter(...) : undefined
ArrayOrUndef(a) == IF a.ty = "array" THEN Some(a.v) ELSE UNDEF

Max(a, b) == IF a >= b THEN a ELSE b
\* The nearest integer to a number argument, halves upwards.
Nearest(a) == (2 * a.v + a.den) \div (2 * a.den)
\* Math.floor of a number argument.
Floor(a) == a.v \div a.den

\* defaultRangeFromDaysBack(daysBack), read at day today.
defaultRangeFromDaysBack(daysBack, today) ==
  [fromDate |-> formatYmd(addDays(today, 0 - Max(1, daysBack))), toDate |-> formatYmd(today)]

\* A window whose end is left as the caller gave it.
NoClamp(toDate, today) == toDate

\* The end of the window after `if (toDate > today) toDate = today`.
ClampToDate(toDate, today) == IF StrGreater(toDate, today) THEN today ELSE toDate

\* my_calls_range up to its user ids: the window from the arguments, read at
\* day d1 (defaultRangeFromDaysBack) and day d2 (the clamp).
RangeWindow(c, d1, d2) ==
  LET fromArg == StringOrUndef(c.args.fromDate)
      toArg == StringOrUndef(c.args.toDate)
      daysBack == IF c.args.daysBack.ty = "number" THEN Max(1, Floor(c.args.daysBack)) ELSE DefaultDaysBack
      window == defaultRangeFromDaysBack(daysBack, d1)
      missing == ~TruthySeq(fromArg) \/ ~TruthySeq(toArg)
      fromDate == IF missing THEN OrElseSeq(fromArg, Some(window.fromDate)) ELSE fromArg
      toDate == IF missing THEN OrElseSeq(toArg, Some(window.toDate)) ELSE toArg
  IN [c EXCEPT !.fromDate = fromDate, !.toDate = Some(ClampToDate(toDate[1], formatYmd(d2)))]

\* my_calls_today up to its user id: yesterday -> today (the image runs in
\* UTC, where new Date("YYYY-MM-DD") is local midnight of that day).
TodayWindow(c, d) ==
  [c EXCEPT !.fromDate = Some(formatYmd(addDays(d, 0 - 1))), !.toDate = Some(formatYmd(d))]

\* The handler from its entry to its first await, or to its return: the
\* slot, cachedUserId and the .env file after it.  d1 and d2 are the days
\* the clock is read at.
HandlerEntry(c, cached, environ, file, d1, d2) ==
  LET same(x) == [c |-> x, cached |-> cached, file |-> file]
      explicit == IF c.args.user_ids.ty = "array" THEN c.args.user_ids ELSE c.args.userIds
      own == ArrayOrUndef(c.args.userIds)
  IN CASE c.tool = "list_calls" ->
            IF ~isGongListCallsArgs(c.args)
            THEN same(CatchBoundary(c, "Invalid arguments for list_calls"))
            ELSE same(Await(c, "listCalls", ListCallsReq))
       [] c.tool = "list_calls_extensive" ->
            IF ~isListCallsExtensiveArgs(c.args)
            THEN same(CatchBoundary(c, "Invalid arguments for list_calls_extensive"))
            ELSE IF explicit.ty = "array" /\ Len(explicit.v) > 0
            THEN same(ContinueWithUsers(c, explicit.v))
            ELSE IF IsString(c.args.user_id) /\ c.args.user_id.v /= <<>>
            THEN same(ContinueWithUsers(c, <<c.args.user_id.v>>))
            ELSE getOrResolveMyUserId(c, cached, environ, file)
       [] c.tool = "activity_day_by_day" ->
            LET d == [c EXCEPT !.fromDate = StringOrUndef(c.args.fromDate),
                               !.toDate = StringOrUndef(c.args.toDate)]
            IN IF ~TruthySeq(d.fromDate) \/ ~TruthySeq(d.toDate)
               THEN same(CatchBoundary(d, "fromDate and toDate (YYYY-MM-DD) are required"))
               ELSE IF own = UNDEF \/ own = Some(<<>>)
               THEN getOrResolveMyUserId(d, cached, environ, file)
               ELSE same(ContinueWithUsers(d, own[1]))
       [] c.tool = "my_calls_range" ->
            LET d == RangeWindow(c, d1, d2)
            IN IF own = UNDEF \/ own = Some(<<>>)
               THEN getOrResolveMyUserId(d, cached, environ, file)
               ELSE same(ContinueWithUsers(d, own[1]))
       [] c.tool = "my_calls_today" ->
            getOrResolveMyUserId(TodayWindow(c, d1), cached, environ, file)
       [] c.tool = "get_users" ->
            same(Await([c EXCEPT !.cursor = 0, !.safety = 0, !.pages = 1, !.acc = <<>>, !.served = <<>>],
                       "getUsers", GetUsersReq(0)))
       [] c.tool = "retrieve_transcripts" ->
            IF ~isGongRetrieveTranscriptsArgs(c.args)
            THEN same(CatchBoundary(c, "Invalid arguments for retrieve_transcripts"))
            ELSE same(Await(c, "retrieveTranscripts", TranscriptReq))
       [] OTHER -> same(UnknownTool(c))

\* The days the clock may show at a second reading.
LaterReadings == {d \in {clock, clock + 1} : d <= Day0 + world.ticks}

\* A CallTool request arrives and the handler runs to its first await.
Dispatch(p) ==
  /\ p <= world.slots
  /\ call[p].pc = "idle"
  /\ \E name \in world.tools : \E i \in DOMAIN ToolArgs(name) : \E d2 \in LaterReadings :
       LET r == HandlerEntry([Idle EXCEPT !.tool = name, !.args = ToolArgs(name)[i]],
                             cachedUserId, env, envFile, clock, d2)
       IN /\ call' = [call EXCEPT ![p] = r.c]
          /\ cachedUserId' = r.cached
          /\ envFile' = r.file
          /\ clock' = d2
  /\ UNCHANGED <<world, env, userCache, usersLoaded, fin, fout>>

\* The response of the handler is sent to the caller and the slot is free.
Respond(p) ==
  /\ call[p].pc = "done"
  /\ call' = [call EXCEPT ![p] = Idle]
  /\ UNCHANGED <<world, env, cachedUserId, userCache, usersLoaded, envFile, clock, fin, fout>>

\* Midnight passes.
Tick ==
  /\ clock < Day0 + world.ticks
  /\ clock' = clock + 1
  /\ UNCHANGED <<world, env, cachedUserId, userCache, usersLoaded, envFile, call, fin, fout>>


\* ----------------------------------------------------------- the upstream

\* What a request may fail with: the client's error, or the TypeError of
\* the handler reading a null body.
Failures == UpstreamErrors \cup {MalformedError}

\* The items of a list of pages, in page order.
RECURSIVE Flatten(_)
Flatten(pages) == IF pages = <<>> THEN <<>> ELSE Head(pages) \o Flatten(Tail(pages))

\* The cursors a page may carry to a loop that has sent c.pages requests and
\* been served the pages of served: none (0), or a cursor to the next page
\* (the number of the page served).  A chain of pages with items is at most
\* world.chain pages long; a chain of empty pages may go on past the cap.
Cursors(c, served) ==
  {0} \cup (IF \/ c.pages < world.chain
               \/ world.endless /\ Flatten(served) = <<>> /\ c.pages < SafetyCap + MaxOverrun
            THEN {c.pages} ELSE {})

\* The pages the upstream may serve to a loop it has served the pages of
\* served: at most world.items items in one loop.
PagesFor(served, pages) == {items \in pages : Len(Flatten(served)) + Len(items) <= world.items}

\* A loop that keeps only the page it has just read.
PushLast(all, items) == items

\* allCalls.push(...response.calls), users.push(...(resp.users || []))
PushAll(all, items) == all \o items

\* The request for the next page: the cursor of the page just read.
NextPage(c, pc, req) == Await([c EXCEPT !.pages = c.pages + 1], pc, req)

\* ------------------------------------------- getOrResolveMyUserId: its loop

\* The body of the do-while for one page: matches and cursor.
ResolvePage(c, users, cursor, fullName) ==
  [c EXCEPT !.matches = c.matches \o MatchesOf(users, fullName),
            !.seen = Append(c.seen, users), !.cursor = cursor]

\* `while (cursor)`: whether getOrResolveMyUserId asks for another page.
ResolveContinues(c) == c.cursor /= 0

\* The user picked among the matches: matches[0] after the sort.
PickMatch(matches) == SortById(matches)[1]

\* GET /users answers getOrResolveMyUserId.
ResolveReply(p) ==
  LET c == call[p] IN
  /\ c.pc = "getOrResolveMyUserId"
  /\ \/ \E message \in Failures :
          /\ call' = [call EXCEPT ![p] = CatchBoundary(c, message)]
          /\ UNCHANGED <<cachedUserId, envFile>>
     \/ \E users \in PagesFor(c.seen, UsersPages) : \E cursor \in Cursors(c, c.seen) :
          LET d == ResolvePage(c, users, cursor, env.GONG_USER_FULL_NAME[1])
          IN IF ResolveContinues(d)
             THEN /\ call' = [call EXCEPT ![p] = NextPage(d, "getOrResolveMyUserId", GetUsersReq(d.cursor))]
                  /\ UNCHANGED <<cachedUserId, envFile>>
             ELSE IF d.matches = <<>>
             THEN /\ call' = [call EXCEPT ![p] =
                                CatchBoundary([d EXCEPT !.resolved = <<"none">>],
                                              "No Gong user matched configured full name")]
                  /\ UNCHANGED <<cachedUserId, envFile>>
             ELSE IF ~TruthySeq(PickMatch(d.matches).id)
             THEN /\ cachedUserId' = PickMatch(d.matches).id
                  /\ call' = [call EXCEPT ![p] =
                                CatchBoundary([d EXCEPT !.resolved = <<"noid">>],
                                              "Matched user has no id field; cannot proceed.")]
                  /\ UNCHANGED envFile
             ELSE /\ cachedUserId' = PickMatch(d.matches).id
                  /\ envFile' \in {persistUserIdToEnv(PickMatch(d.matches).id, envFile), envFile}
                  /\ call' = [call EXCEPT ![p] = AfterResolve(d, PickMatch(d.matches).id[1])]
  /\ UNCHANGED <<world, env, userCache, usersLoaded, clock, fin, fout>>

\* ------------------------------------------------------- ensureUserCache

\* The display name the directory keeps for a user.
DisplayName(u) ==
  LET composite == Trim(StrOf(u.firstName) \o <<" ">> \o StrOf(u.lastName))
  IN IF TruthySeq(u.fullName) THEN u.fullName[1]
     ELSE IF TruthySeq(u.name) THEN u.name[1]
     ELSE IF composite /= <<>> THEN composite
     ELSE IF TruthySeq(u.emailAddress) THEN u.emailAddress[1]
     ELSE IF TruthySeq(u.email) THEN u.email[1]
     ELSE IF TruthySeq(u.id) THEN u.id[1]
     ELSE <<"Unknown">>

\* for (const u of resp.users || []) if (u.id) userCache.set(u.id, name)
RECURSIVE CacheUsers(_, _)
CacheUsers(cache, users) ==
  IF users = <<>> THEN cache
  ELSE CacheUsers(IF TruthySeq(Head(users).id)
                  THEN MapSet(cache, Head(users).id[1], DisplayName(Head(users)))
                  ELSE cache,
                  Tail(users))

\* `while (cursor && safety < 50)`: whether a capped loop asks for another page.
LoopContinues(c) == c.cursor /= 0 /\ c.safety < SafetyCap

\* The identifiers of the users on the pages of served.
IdsOn(served) ==
  {Flatten(served)[i].id[1] : i \in {j \in DOMAIN Flatten(served) : TruthySeq(Flatten(served)[j].id)}}

\* The load an invocation has run to its end: the identifiers it was served
\* and the cursor of its last page.
Loaded(d) == [d EXCEPT !.loaded = <<[ids |-> IdsOn(d.served), cursor |-> d.cursor]>>]

\* A load that marks the directory whichever way it ends.
MarkedAnyway(loaded) == TRUE

\* usersLoaded after a request of the load has failed: the error leaves
\* ensureUserCache from inside its loop, before the flag is set.
AfterFailedLoad(loaded) == loaded

\* GET /users answers ensureUserCache.
EnsureReply(p) ==
  LET c == call[p] IN
  /\ c.pc = "ensureUserCache"
  /\ \/ \E message \in Failures :
          /\ call' = [call EXCEPT ![p] = CatchBoundary(c, message)]
          /\ usersLoaded' = AfterFailedLoad(usersLoaded)
          /\ UNCHANGED userCache
     \/ \E users \in PagesFor(c.served, UsersPages) : \E cursor \in Cursors(c, c.served) :
          LET d == [c EXCEPT !.served = Append(c.served, users), !.cursor = cursor, !.safety = c.safety + 1]
              cache == CacheUsers(userCache, users)
          IN /\ userCache' = cache
             /\ IF LoopContinues(d)
                THEN /\ call' = [call EXCEPT ![p] = NextPage(d, "ensureUserCache", GetUsersReq(d.cursor))]
                     /\ UNCHANGED usersLoaded
                ELSE /\ usersLoaded' = TRUE
                     /\ call' = [call EXCEPT ![p] = StartHydrate(Loaded(d), cache)]
  /\ UNCHANGED <<world, env, cachedUserId, envFile, clock, fin, fout>>


\* ------------------------------------------------- list_calls_extensive

\* POST /calls/extensive answers list_calls_extensive.
ExtensiveReply(p) ==
  LET c == Forget(call[p]) IN
  /\ c.pc = "listCallsExtensive"
  /\ \/ \E message \in Failures : call' = [call EXCEPT ![p] = CatchBoundary(c, message)]
     \/ \E calls \in PagesFor(c.served, ExtensivePages) : \E cursor \in Cursors(c, c.served) :
          LET d == [c EXCEPT !.acc = PushAll(c.acc, calls), !.served = Append(c.served, calls),
                             !.cursor = cursor, !.safety = c.safety + 1]
          IN IF LoopContinues(d)
             THEN call' = [call EXCEPT ![p] =
                             NextPage(d, "listCallsExtensive", ExtensiveReq(d.userIds, d.cursor))]
             ELSE call' = [call EXCEPT ![p] =
                             Success(d, [count |-> Len(d.acc),
                                         calls |-> [i \in DOMAIN d.acc |-> normalizeCallRecord(d.acc[i])]])]
  /\ UNCHANGED <<world, env, cachedUserId, userCache, usersLoaded, envFile, clock, fin, fout>>

\* -------------------------------------------------------------- get_users

\* The name_filter in use: a non-empty string, lower-cased.
FilterStr(args) ==
  IF IsString(args.name_filter) /\ args.name_filter.v /= <<>>
  THEN Some(ToLowerCase(args.name_filter.v)) ELSE UNDEF

\* Whether get_users keeps u under filterStr.
PassesFilter(u, filterStr) ==
  LET composite == ToLowerCase(Trim(StrOf(u.firstName) \o <<" ">> \o StrOf(u.lastName)))
      alt == ToLowerCase(IF TruthySeq(u.fullName) THEN u.fullName[1] ELSE StrOf(u.name))
  IN Includes(composite, filterStr) \/ Includes(alt, filterStr)

RECURSIVE FilterUsers(_, _)
FilterUsers(users, filterStr) ==
  IF filterStr = UNDEF THEN users
  ELSE IF users = <<>> THEN <<>>
  ELSE (IF PassesFilter(Head(users), filterStr[1]) THEN <<Head(users)>> ELSE <<>>)
       \o FilterUsers(Tail(users), filterStr)

\* One entry of the result of get_users (null as undefined).
Simplify(u) ==
  [userId |-> u.id,
   fullName |-> Coalesce(Coalesce(u.fullName, u.name),
                         Some(Trim(Coalesce(u.firstName, Some(<<>>))[1] \o <<" ">> \o Coalesce(u.lastName, Some(<<>>))[1]))),
   email |-> Coalesce(u.emailAddress, u.email)]

\* GET /users answers get_users.
GetUsersReply(p) ==
  LET c == call[p] IN
  /\ c.pc = "getUsers"
  /\ \/ \E message \in Failures : call' = [call EXCEPT ![p] = CatchBoundary(c, message)]
     \/ \E users \in PagesFor(c.served, UsersPages) : \E cursor \in Cursors(c, c.served) :
          LET d == [c EXCEPT !.acc = PushAll(c.acc, users), !.served = Append(c.served, users),
                             !.cursor = cursor, !.safety = c.safety + 1]
              filtered == FilterUsers(d.acc, FilterStr(d.args))
          IN IF LoopContinues(d)
             THEN call' = [call EXCEPT ![p] = NextPage(d, "getUsers", GetUsersReq(d.cursor))]
             ELSE call' = [call EXCEPT ![p] =
                             Success(d, [count |-> Len(filtered),
                                         users |-> [i \in DOMAIN filtered |-> Simplify(filtered[i])]])]
  /\ UNCHANGED <<world, env, cachedUserId, userCache, usersLoaded, envFile, clock, fin, fout>>

\* ------------------------------------------------------- the pass-throughs

\* A tool that returns the upstream's answer as it is.
PassThrough(p, pc) ==
  LET c == Forget(call[p]) IN
  /\ c.pc = pc
  /\ \/ \E message \in UpstreamErrors : call' = [call EXCEPT ![p] = CatchBoundary(c, message)]
     \/ call' = [call EXCEPT ![p] = Success(c, "response")]
  /\ UNCHANGED <<world, env, cachedUserId, userCache, usersLoaded, envFile, clock, fin, fout>>

\* GET /calls answers list_calls.
ListCallsReply(p) == PassThrough(p, "listCalls")
\* POST /calls/transcript answers retrieve_transcripts.
TranscriptsReply(p) == PassThrough(p, "retrieveTranscripts")
\* POST /stats/activity/day-by-day answers activity_day_by_day.
ActivityDayByDayReply(p) == PassThrough(p, "activityDayByDay")


\* ------------------------------------------- my_calls_range, my_calls_today

\* !activity.usersDetailedActivities || activity.usersDetailedActivities.length === 0
NoActivity(activities) == activities = UNDEF \/ activities[1] = <<>>

\* my_calls_range after its first activity answer: the request without the
\* user-id filter when the answer holds no user, else the answer is used.
RangeAfterActivity(c, activities, loaded, cache) ==
  IF NoActivity(activities)
  THEN Await(c, "activityRetry", ActivityReq(c.fromDate[1], c.toDate[1], UNDEF))
  ELSE AfterActivity(c, activities, loaded, cache)

\* The request in flight has come back, failed or with usersDetailedActivities.
Heard(c, ok, activities) ==
  [c EXCEPT !.heard = Append(c.heard, [req |-> c.req, ok |-> ok, users |-> activities])]

\* POST /stats/activity/day-by-day answers my_calls_range.
RangeActivityReply(p) ==
  LET c == Forget(call[p]) IN
  /\ c.pc = "activity" /\ c.tool = "my_calls_range"
  /\ \/ \E message \in Failures : call' = [call EXCEPT ![p] = CatchBoundary(Heard(c, FALSE, UNDEF), message)]
     \/ \E activities \in ActivityAnswers(c.req.userIds) :
          call' = [call EXCEPT ![p] = RangeAfterActivity(Heard(c, TRUE, activities), activities,
                                                         usersLoaded, userCache)]
  /\ UNCHANGED <<world, env, cachedUserId, userCache, usersLoaded, envFile, clock, fin, fout>>

\* POST /stats/activity/day-by-day answers the retry of my_calls_range.
RangeRetryReply(p) ==
  LET c == call[p] IN
  /\ c.pc = "activityRetry"
  /\ \/ \E message \in Failures : call' = [call EXCEPT ![p] = CatchBoundary(Heard(c, FALSE, UNDEF), message)]
     \/ \E activities \in ActivityAnswers(c.req.userIds) :
          call' = [call EXCEPT ![p] = AfterActivity(Heard(c, TRUE, activities), activities,
                                                    usersLoaded, userCache)]
  /\ UNCHANGED <<world, env, cachedUserId, userCache, usersLoaded, envFile, clock, fin, fout>>

\* POST /stats/activity/day-by-day answers my_calls_today.
TodayActivityReply(p) ==
  LET c == Forget(call[p]) IN
  /\ c.pc = "activity" /\ c.tool = "my_calls_today"
  /\ \/ \E message \in Failures : call' = [call EXCEPT ![p] = CatchBoundary(Heard(c, FALSE, UNDEF), message)]
     \/ \E activities \in ActivityAnswers(c.req.userIds) :
          call' = [call EXCEPT ![p] = AfterActivity(Heard(c, TRUE, activities), activities,
                                                    usersLoaded, userCache)]
  /\ UNCHANGED <<world, env, cachedUserId, userCache, usersLoaded, envFile, clock, fin, fout>>

\* One turn of the hydration loop: the record pushed for the identifier
\* asked for, on a failure (any raised error) or on a detail.
HydrateFailed(c, id) == Append(c.detailed, Entry(Placeholder(id), id, TRUE))
HydrateFetched(c, id, raw) == Append(c.detailed, Entry(normalizeCallRecord(raw), id, FALSE))

\* GET /calls/{id} answers the hydration loop of my_calls_range or
\* my_calls_today.
GetCallReply(p) ==
  LET c == ForgetLoad(call[p])
      id == c.ids[Len(c.detailed) + 1]
  IN
  /\ c.pc = "getCall"
  /\ \E detailed \in {HydrateFailed(c, id)} \cup {HydrateFetched(c, id, raw) : raw \in DetailPool(id)} :
       LET d == [c EXCEPT !.detailed = detailed]
       IN IF Len(detailed) < Len(c.ids)
          THEN call' = [call EXCEPT ![p] = Await(d, "getCall", GetCallReq(c.ids[Len(detailed) + 1]))]
          ELSE \E sorted \in SortOutcomes(detailed) :
                 call' = [call EXCEPT ![p] = FinishAggregate(d, sorted, userCache)]
  /\ UNCHANGED <<world, env, cachedUserId, userCache, usersLoaded, envFile, clock, fin, fout>>

\* ------------------------------------------------------- the specification

\* The configurations the server starts with: nothing set, a full name to
\* resolve, or a user id.
Environments ==
  { [GONG_USER_ID |-> UNDEF, GONG_USER_FULL_NAME |-> UNDEF],
    [GONG_USER_ID |-> UNDEF, GONG_USER_FULL_NAME |-> Some(<<" ", "a", " ", "B">>)],
    [GONG_USER_ID |-> Some(<<2>>), GONG_USER_FULL_NAME |-> UNDEF] }

\* The .env file at the start: one line, no GONG_USER_ID.
StartEnvFile == Some(EnvText(<<EnvLine(0, "GONG_ACCESS_KEY", <<1>>)>>, <<>>))

\* The state the process starts in, in world w under one of the
\* configurations envs.
Start(w, envs) ==
  /\ world = w
  /\ env \in envs
  /\ cachedUserId = (IF TruthySeq(env.GONG_USER_ID) THEN env.GONG_USER_ID ELSE UNDEF)
  /\ userCache = <<>>
  /\ usersLoaded = FALSE
  /\ envFile = StartEnvFile
  /\ clock = Day0
  /\ call = [p \in Procs |-> Idle]
  /\ fin = <<>>
  /\ fout = <<>>

\* Every tool, against an upstream with two users, pages that may hold
\* all the items of a loop, and short cursor chains.
World ==
  [tools |-> ToolNames, users |-> {UserA, UserB}, items |-> MaxItems, pageLen |-> MaxItems,
   chain |-> MaxChain, endless |-> FALSE, ticks |-> 0, details |-> 2, slots |-> 1]

Init == Start(World, Environments)

Next ==
  \/ \E p \in Procs :
       \/ Dispatch(p)
       \/ Respond(p)
       \/ ResolveReply(p)
       \/ EnsureReply(p)
       \/ ExtensiveReply(p)
       \/ GetUsersReply(p)
       \/ ListCallsReply(p)
       \/ TranscriptsReply(p)
       \/ ActivityDayByDayReply(p)
       \/ RangeActivityReply(p)
       \/ RangeRetryReply(p)
       \/ TodayActivityReply(p)
       \/ GetCallReply(p)

Spec == Init /\ [][Next]_vars

\* The paginated tools, against an upstream that lists every user of the
\* pool and may return a cursor on every page.
PagingWorld ==
  [tools |-> {"list_calls_extensive", "get_users"}, users |-> UserPool, items |-> MaxItems,
   pageLen |-> MaxPageLen, chain |-> MaxChain, endless |-> TRUE, ticks |-> 0, details |-> 1,
   slots |-> 1]

InitPaging == Start(PagingWorld, Environments)

NextPaging ==
  \E p \in Procs :
    \/ Dispatch(p)
    \/ Respond(p)
    \/ ResolveReply(p)
    \/ ExtensiveReply(p)
    \/ GetUsersReply(p)

SpecPaging == InitPaging /\ [][NextPaging]_vars

\* The aggregate reads, against an upstream that answers GET /calls/{id} in
\* every shape, while the clock runs.
AggregateWorld ==
  [tools |-> {"my_calls_range", "my_calls_today"}, users |-> {UserA}, items |-> 1,
   pageLen |-> 1, chain |-> 1, endless |-> FALSE, ticks |-> MaxTicks, details |-> MaxDetails,
   slots |-> 1]

InitAggregate == Start(AggregateWorld, Environments)

NextAggregate ==
  \/ Tick
  \/ \E p \in Procs :
       \/ Dispatch(p)
       \/ Respond(p)
       \/ ResolveReply(p)
       \/ EnsureReply(p)
       \/ RangeActivityReply(p)
       \/ RangeRetryReply(p)
       \/ TodayActivityReply(p)
       \/ GetCallReply(p)

SpecAggregate == InitAggregate /\ [][NextAggregate]_vars

\* my_calls_today from a caller that sends a second request before the
\* first is answered, against an upstream whose user list may differ from
\* one request to the next.
ConcurrentWorld ==
  [tools |-> {"my_calls_today"}, users |-> {UserA, UserB}, items |-> 1, pageLen |-> 1,
   chain |-> 1, endless |-> FALSE, ticks |-> 0, details |-> 1, slots |-> 2]

InitConcurrent == Start(ConcurrentWorld, Environments)

NextConcurrent ==
  \E p \in Procs :
    \/ Dispatch(p)
    \/ Respond(p)
    \/ ResolveReply(p)
    \/ EnsureReply(p)
    \/ TodayActivityReply(p)
    \/ GetCallReply(p)

SpecConcurrent == InitConcurrent /\ [][NextConcurrent]_vars

\* The lines a .env file may hold when the process starts: a credential,
\* GONG_USER_ID with no value yet (indented or not), and the empty line.
\* dotenv.config() reads the same file into process.env, so a line that
\* gives GONG_USER_ID a value would have set cachedUserId from the start.
LinePool ==
  {EnvLine(0, "GONG_ACCESS_KEY", <<1>>), EnvLine(1, "GONG_USER_ID", <<>>),
   EnvLine(0, "GONG_USER_ID", <<>>), EnvLine(0, "", <<>>)}

\* The .env files of at most MaxLines lines, each line ending LF or CRLF,
\* and no file at all.
EnvFiles ==
  {UNDEF} \cup
  UNION {{Some(EnvText(lines, eols)) : lines \in [1..n -> LinePool], eols \in [1..(n - 1) -> {"lf", "crlf"}]} :
           n \in 1..MaxLines}

\* activity_day_by_day with the default user, over every .env file, from
\* a caller that keeps two requests in flight.
PersistWorld ==
  [tools |-> {"activity_day_by_day"}, users |-> {UserA, UserB}, items |-> 1, pageLen |-> 1,
   chain |-> 1, endless |-> FALSE, ticks |-> 0, details |-> 1, slots |-> 2]

InitPersist ==
  /\ world = PersistWorld
  /\ env \in Environments
  /\ cachedUserId = (IF TruthySeq(env.GONG_USER_ID) THEN env.GONG_USER_ID ELSE UNDEF)
  /\ userCache = <<>>
  /\ usersLoaded = FALSE
  /\ envFile \in EnvFiles
  /\ clock = Day0
  /\ call = [p \in Procs |-> Idle]
  /\ fin = <<>>
  /\ fout = <<>>

NextPersist ==
  \E p \in Procs :
    \/ Dispatch(p)
    \/ Respond(p)
    \/ ResolveReply(p)
    \/ ActivityDayByDayReply(p)

SpecPersist == InitPersist /\ [][NextPersist]_vars

\* The normalizer alone, on every raw record of at most MaxFields fields.
FieldValues == {"", "v", "w"}

FieldSets == {S \in SUBSET RawFields : Cardinality(S) <= MaxFields}

\* The record whose fields are those of g.
Fill(g) == [f \in RawFields |-> IF f \in DOMAIN g THEN Some(g[f]) ELSE UNDEF]

\* The raw records over the fields of g: flat, nested under metaData, and
\* flat beside an empty metaData.
RawShapes(g) ==
  {RawCall(Fill(g), UNDEF), RawCall(EmptyFlat, Some(Fill(g))), RawCall(Fill(g), Some(EmptyFlat))}

InitNormalize ==
  /\ world = World
  /\ env = [GONG_USER_ID |-> UNDEF, GONG_USER_FULL_NAME |-> UNDEF]
  /\ cachedUserId = UNDEF
  /\ userCache = <<>>
  /\ usersLoaded = FALSE
  /\ envFile = StartEnvFile
  /\ clock = Day0
  /\ call = [p \in Procs |-> Idle]
  /\ \E S \in FieldSets : \E g \in [S -> FieldValues] : \E raw \in RawShapes(g) : fin = Some(raw)
  /\ fout = <<>>

\* normalizeCallRecord is applied to the record.
Normalize ==
  /\ fout = <<>>
  /\ fout' = Some(normalizeCallRecord(fin[1]))
  /\ UNCHANGED <<world, env, cachedUserId, userCache, usersLoaded, envFile, clock, call, fin>>

NextNormalize == Normalize

SpecNormalize == InitNormalize /\ [][NextNormalize]_vars

\* my_calls_today against an upstream whose user list may run to more
\* pages than a capped loop reads.
DirectoryWorld ==
  [tools |-> {"my_calls_today"}, users |-> {UserA, UserB}, items |-> 1, pageLen |-> 1,
   chain |-> MaxChain, endless |-> TRUE, ticks |-> 0, details |-> 1, slots |-> 1]

InitDirectory == Start(DirectoryWorld, Environments)

NextDirectory ==
  \E p \in Procs :
    \/ Dispatch(p)
    \/ Respond(p)
    \/ ResolveReply(p)
    \/ EnsureReply(p)
    \/ TodayActivityReply(p)
    \/ GetCallReply(p)

SpecDirectory == InitDirectory /\ [][NextDirectory]_vars

\* ------------------------------------------------------------ the client

\* An object is the sequence of its own properties in insertion order, each
\* a pair of its key and its value, Some(v) or UNDEF for undefined; a
\* parameter that may be left out is UNDEF or Some(object).
Prop(key, val) == <<key, Some(val)>>

\* The properties JSON.stringify and the query string keep: those whose
\* value is not undefined.
Defined(obj) == SelectSeq(obj, LAMBDA kv : kv[2] /= UNDEF)

\* JSON.stringify(obj): the braces around the properties kept, so "{}" for
\* an object with none. The empty string is <<>>.
JsonStringify(obj) ==
  <<"{">> \o [i \in DOMAIN Defined(obj) |-> <<Defined(obj)[i][1], Defined(obj)[i][2][1]>>] \o <<"}">>

\* data || params: an object, also one with no properties, is truthy.
OrObject(data, params) == IF data /= UNDEF THEN data ELSE params

\* new Date().toISOString() at the reading now of the clock.
toISOString(now) == <<formatYmd(now), "T00:00:00.000Z">>

\* GongClient.generateSignature. The HMAC-SHA256 of stringToSign under the
\* secret, in base64, stands as the pair of its key and its message: two
\* signatures are equal exactly when both are.
generateSignature(method, path, timestamp, params) ==
  [key |-> "accessSecret",
   stringToSign |-> <<method, path, timestamp,
                      IF params /= UNDEF THEN JsonStringify(params[1]) ELSE <<>> >>]

\* GongClient.request: the message axios puts on the wire. The query string
\* holds the defined properties of params, the body is data.
request(method, path, params, data, now) ==
  LET timestamp == toISOString(now)
  IN  [method |-> method,
       url |-> <<"https://api.gong.io/v2">> \o path,
       path |-> path,
       query |-> IF params = UNDEF THEN <<>> ELSE Defined(params[1]),
       body |-> data,
       timestamp |-> timestamp,
       signature |-> generateSignature(method, path, timestamp, OrObject(data, params))]

\* The property key: val when val is truthy, else nothing.
IfTruthy(key, val) == IF Truthy(val) THEN <<Prop(key, val[1])>> ELSE <<>>

\* GongClient.listCalls, getCall, retrieveTranscripts, listCallsExtensive,
\* activityDayByDay and getUsers.
listCalls(fromDateTime, toDateTime, now) ==
  request("GET", <<"/calls">>,
          Some(IfTruthy("fromDateTime", fromDateTime) \o IfTruthy("toDateTime", toDateTime)),
          UNDEF, now)

getCall(callId, now) == request("GET", <<"/calls/", callId>>, UNDEF, UNDEF, now)

retrieveTranscripts(callIds, now) ==
  request("POST", <<"/calls/transcript">>, UNDEF,
          Some(<<Prop("filter", <<Prop("callIds", callIds), Prop("includeEntities", TRUE),
                                  Prop("includeInteractionsSummary", TRUE),
                                  Prop("includeTrackers", TRUE)>>)>>),
          now)

listCallsExtensive(filter, cursor, now) ==
  request("POST", <<"/calls/extensive">>, UNDEF,
          Some(<<Prop("filter", filter)>> \o IfTruthy("cursor", cursor)), now)

activityDayByDay(filter, cursor, now) ==
  request("POST", <<"/stats/activity/day-by-day">>, UNDEF,
          Some(<<Prop("filter", filter)>> \o IfTruthy("cursor", cursor)), now)

getUsers(cursor, includeAvatars, now) ==
  request("GET", <<"/users">>,
          Some(IfTruthy("cursor", cursor)
               \o (IF includeAvatars THEN <<Prop("includeAvatars", "true")>> ELSE <<>>)),
          UNDEF, now)

\* The calls of the client the handler makes: each method with arguments
\* left out, empty and given.
OptStrings == {UNDEF, Some(""), Some("x"), Some("y")}
Filters == {<<Prop("fromDate", "2024-12-30"), Prop("toDate", "2024-12-31")>>,
            <<Prop("fromDate", "2024-12-30"), Prop("toDate", "2024-12-31"),
              Prop("userIds", <<"2">>)>>}
NoCall ==
  [method |-> "", fromDateTime |-> UNDEF, toDateTime |-> UNDEF, callId |-> "",
   callIds |-> <<>>, filter |-> <<>>, cursor |-> UNDEF, includeAvatars |-> FALSE]
ClientCalls ==
       {[NoCall EXCEPT !.method = "listCalls", !.fromDateTime = f, !.toDateTime = t] :
          f \in OptStrings, t \in OptStrings}
  \cup {[NoCall EXCEPT !.method = "getCall", !.callId = id] : id \in {"c1", "c2", "c3"}}
  \cup {[NoCall EXCEPT !.method = "retrieveTranscripts", !.callIds = ids] :
          ids \in {<<"c1">>, <<"c1", "c2">>}}
  \cup {[NoCall EXCEPT !.method = "listCallsExtensive", !.filter = f, !.cursor = c] :
          f \in Filters, c \in OptStrings}
  \cup {[NoCall EXCEPT !.method = "activityDayByDay", !.filter = f] : f \in Filters}
  \cup {[NoCall EXCEPT !.method = "getUsers", !.cursor = c] : c \in OptStrings}

\* The message the call k of the client sends at the reading now.
Invoke(k, now) ==
  CASE k.method = "listCalls" -> listCalls(k.fromDateTime, k.toDateTime, now)
    [] k.method = "getCall" -> getCall(k.callId, now)
    [] k.method = "retrieveTranscripts" -> retrieveTranscripts(k.callIds, now)
    [] k.method = "listCallsExtensive" -> listCallsExtensive(k.filter, k.cursor, now)
    [] k.method = "activityDayByDay" -> activityDayByDay(k.filter, k.cursor, now)
    [] k.method = "getUsers" -> getUsers(k.cursor, k.includeAvatars, now)

\* The client alone: one call of it, made at some reading of the clock.
SignWorld ==
  [tools |-> {}, users |-> {}, items |-> 0, pageLen |-> 0, chain |-> 0,
   endless |-> FALSE, ticks |-> MaxTicks, details |-> 0, slots |-> 0]

InitSign ==
  /\ world = SignWorld
  /\ env = [GONG_USER_ID |-> UNDEF, GONG_USER_FULL_NAME |-> UNDEF]
  /\ cachedUserId = UNDEF
  /\ userCache = <<>>
  /\ usersLoaded = FALSE
  /\ envFile = StartEnvFile
  /\ clock = Day0
  /\ call = [p \in Procs |-> Idle]
  /\ fin \in {Some(k) : k \in ClientCalls}
  /\ fout = <<>>

\* The client sends the request of the call.
SendRequest ==
  /\ fout = <<>>
  /\ fout' = Some(Invoke(fin[1], clock))
  /\ UNCHANGED <<world, env, cachedUserId, userCache, usersLoaded, envFile, clock, call, fin>>

NextSign == SendRequest \/ Tick

SpecSign == InitSign /\ [][NextSign]_vars

\* ------------------------------------------------------ the error boundary

\* The names the switch of the handler has a case for.
KnownTools == ToolNames \ {"bogus"}

\* The awaits a handler may be suspended at.
Awaits == {"getOrResolveMyUserId", "ensureUserCache", "listCallsExtensive", "getUsers",
           "listCalls", "retrieveTranscripts", "activityDayByDay", "activity",
           "activityRetry", "getCall"}

\* C1.  An invocation is idle, suspended at an await with its request in
\* flight and no response yet, or done with one structured response: a
\* payload with isError false when nothing was raised, isError true with
\* the text "Error: " and the raised message when something was, and
\* isError true with "Unknown tool: " and the name for a name the switch has
\* no case for.  No error leaves the handler in any other way.
C1_ErrorBoundary ==
  \A p \in Procs :
    LET c == call[p] IN
    /\ c.pc \in Awaits \cup {"idle", "done"}
    /\ c.pc \in Awaits => c.req /= NoReq /\ c.resp = NoResp /\ c.raised = UNDEF
    /\ c.pc = "idle" => c = Idle
    /\ c.pc = "done" =>
         /\ c.req = NoReq
         /\ \/ /\ c.tool \in KnownTools /\ c.raised = UNDEF
               /\ c.resp.isError = FALSE /\ c.resp.body /= UNDEF /\ c.resp.text = <<>>
            \/ /\ c.tool \in KnownTools /\ c.raised /= UNDEF
               /\ c.resp.isError = TRUE /\ c.resp.body = UNDEF
               /\ c.resp.text = <<"Error: ", c.raised[1]>>
            \/ /\ c.tool \notin KnownTools /\ c.raised = UNDEF
               /\ c.resp.isError = TRUE /\ c.resp.body = UNDEF
               /\ c.resp.text = <<"Unknown tool: ", c.tool>>

\* An aggregate read has failed on a body that is null, after the default
\* user was resolved, and has answered with the failure payload.
C1_Witness ==
  \E p \in Procs :
    /\ call[p].pc = "done" /\ call[p].tool = "my_calls_range"
    /\ call[p].resolved /= <<>> /\ call[p].resolved[1] = "ok"
    /\ call[p].raised = Some(MalformedError)
    /\ call[p].resp.isError = TRUE

\* ------------------------------------------------------ the pagination cap

\* C2.  No pagination loop sends more than 50 page requests in one run:
\* the count of requests a loop has sent never exceeds the cap, whichever
\* loop it is (default-user resolution, directory hydration,
\* list_calls_extensive, get_users).
C2_PageCap == \A p \in Procs : call[p].pages <= SafetyCap

\* The same bound for the three loops that count their turns in `safety`.
C2_CappedLoops ==
  \A p \in Procs :
    call[p].pc \in {"ensureUserCache", "listCallsExtensive", "getUsers"} =>
      call[p].pages <= SafetyCap /\ call[p].pages = call[p].safety + 1

\* ------------------------------------------------- the paginated results

\* A run of list_calls_extensive or get_users that has returned a payload
\* after a last page without cursor.
Returned(c, tool) ==
  c.pc = "done" /\ c.tool = tool /\ c.resp.isError = FALSE /\ c.cursor = 0

\* The request in flight of a capped loop is the one for the page after the
\* pages read, and carries the cursor of the last page read.
OncePerPage(c) ==
  /\ c.pc \in {"listCallsExtensive", "getUsers"} =>
       /\ c.pages = Len(c.served) + 1
       /\ c.req.cursor = c.cursor
       /\ c.req.cursor = (IF c.served = <<>> THEN 0 ELSE Len(c.served))
  /\ c.pc = "done" /\ c.tool \in {"list_calls_extensive", "get_users"} /\ c.resp.isError = FALSE =>
       c.pages = Len(c.served)

\* C3 as the program has it.  Each page is requested once, with the cursor
\* of the page before it.  When the loop ends on a page without cursor,
\* list_calls_extensive returns the normalized records of all pages' calls
\* in page order and their number as count; get_users without a
\* name_filter returns the entries of all pages' users in page order and
\* their number; get_users with a name_filter returns, in page order, the
\* entries of the users whose name includes the filter, and their number.
C3_PagesInOrder ==
  \A p \in Procs :
    LET c == call[p]
        all == Flatten(c.served)
        kept == {i \in DOMAIN all : PassesFilter(all[i], FilterStr(c.args)[1])}
    IN /\ OncePerPage(c)
       /\ Returned(c, "list_calls_extensive") =>
            /\ c.resp.body[1].count = Len(all)
            /\ c.resp.body[1].calls = [i \in DOMAIN all |-> normalizeCallRecord(all[i])]
       /\ Returned(c, "get_users") /\ FilterStr(c.args) = UNDEF =>
            /\ c.resp.body[1].count = Len(all)
            /\ c.resp.body[1].users = [i \in DOMAIN all |-> Simplify(all[i])]
       /\ Returned(c, "get_users") /\ FilterStr(c.args) /= UNDEF =>
            /\ c.resp.body[1].count = Cardinality(kept)
            /\ \E at \in [1..Cardinality(kept) -> kept] :
                 /\ \A i, j \in DOMAIN at : i < j => at[i] < at[j]
                 /\ c.resp.body[1].users = [i \in DOMAIN at |-> Simplify(all[at[i]])]

\* Both tools have returned what two pages with one item each held.
C3_Witness ==
  \E p \in Procs :
    /\ Returned(call[p], "list_calls_extensive")
    /\ Len(call[p].served) = 2
    /\ Len(call[p].served[1]) = 1 /\ Len(call[p].served[2]) = 1
    /\ call[p].served[1] /= call[p].served[2]
    /\ call[p].resp.body[1].count = 2

\* C3.  When the loop ends on a page without cursor, the count that
\* list_calls_extensive and get_users report is the number of items of all
\* the pages served.
C3_CountIsTotal ==
  \A p \in Procs :
    \A tool \in {"list_calls_extensive", "get_users"} :
      Returned(call[p], tool) => call[p].resp.body[1].count = Len(Flatten(call[p].served))

\* ------------------------------------------------ the default user, cached

\* What a step may do once identifier id is the default user: cachedUserId
\* stays id, no handler is in (or enters) the lookup of getOrResolveMyUserId,
\* and a handler that getOrResolveMyUserId returns to holds id.
KeepsTo(id) ==
  /\ cachedUserId' = id
  /\ \A p \in Procs :
       /\ call'[p].pc /= "getOrResolveMyUserId"
       /\ call'[p].req.path = "/users" => call'[p].pc \in {"ensureUserCache", "getUsers"}
       /\ call'[p].resolved /= <<>> => call'[p].resolved = <<"ok", id[1]>>

Matching(c) ==
  LET all == Flatten(c.seen)
  IN {all[i] : i \in {j \in DOMAIN all : IsMatch(all[j], env.GONG_USER_FULL_NAME[1])}}

\* The identifiers among them.
MatchingIds(c) == {u.id[1] : u \in {v \in Matching(c) : TruthySeq(v.id)}}

\* The lookup of c has ended with identifier id, the smallest of ids.
PicksSmallest(c, ids) ==
  /\ c.resolved[1] = "ok"
  /\ c.resolved[2] \in ids
  /\ \A id \in ids : ~LexLess(id, c.resolved[2])

\* C5.  When the lookup ends and users with the configured name were
\* served, in whatever order and page split, the lookup returns the
\* smallest identifier among those users, also when one of them has an
\* empty or missing identifier.
C5_SmallestId ==
  \A p \in Procs :
    LET c == call[p]
    IN c.resolved /= <<>> /\ c.seen /= <<>> /\ MatchingIds(c) /= {} =>
         PicksSmallest(c, MatchingIds(c))

\* The same when every user with the configured name has an identifier.
C5_SmallestAmongIdentified ==
  \A p \in Procs :
    LET c == call[p]
    IN /\ c.resolved /= <<>> /\ c.seen /= <<>> /\ Matching(c) /= {}
       /\ \A u \in Matching(c) : TruthySeq(u.id)
       => PicksSmallest(c, MatchingIds(c))

\* Two users with the configured name came on two pages, the greater
\* identifier first.
C5_TwoPages ==
  \E p \in Procs :
    /\ call[p].resolved = <<"ok", <<1, 0>>>>
    /\ Len(call[p].seen) = 2
    /\ call[p].seen[1] = <<UserA>> /\ call[p].seen[2] = <<UserB>>

\* --------------------------------------------------- the hydration loop

AggregateTools == {"my_calls_range", "my_calls_today"}

\* An entry of calls that carries its callId and nothing else.
OnlyCallId(entry, id) ==
  /\ entry.callId = Some(id)
  /\ \A f \in DOMAIN entry \ {"callId"} : entry[f] = UNDEF

\* C6.  The identifiers collected are distinct.  The hydration loop asks
\* for them in order, one GET /calls/{id} each: when k records are pushed,
\* they are those of the first k identifiers and the request in flight is
\* for identifier k + 1.  Whatever fetches fail, the handler returns a
\* success whose count is the number of identifiers, with one entry for
\* each identifier, and the entry of an identifier whose fetch failed
\* carries its callId and nothing else.
C6_PartialFailure ==
  \A p \in Procs :
    LET c == call[p]
        d == c.detailed
    IN /\ \A i, j \in DOMAIN c.ids : i /= j => c.ids[i] /= c.ids[j]
       /\ c.pc = "getCall" =>
            /\ Len(d) < Len(c.ids)
            /\ \A i \in DOMAIN d : d[i].origin = c.ids[i]
            /\ c.req = GetCallReq(c.ids[Len(d) + 1])
       /\ c.pc = "done" /\ c.tool \in AggregateTools /\ (d /= <<>> \/ c.resp.isError = FALSE) =>
            /\ c.resp.isError = FALSE
            /\ c.resp.body[1].count = Len(c.ids)
            /\ Len(c.resp.body[1].calls) = Len(c.ids)
            /\ Len(d) = Len(c.ids)
            /\ \A i \in DOMAIN c.ids : Cardinality({j \in DOMAIN d : d[j].origin = c.ids[i]}) = 1
            /\ \A j \in DOMAIN d : d[j].failed => OnlyCallId(c.resp.body[1].calls[j], d[j].origin)

\* my_calls_range has returned two entries for two identifiers, the fetch
\* of the first having failed and the fetch of the second not.
C6_Witness ==
  \E p \in Procs :
    LET c == call[p]
    IN /\ c.pc = "done" /\ c.tool = "my_calls_range" /\ c.resp.isError = FALSE
       /\ c.ids = <<"c1", "c2">>
       /\ \E i, j \in DOMAIN c.detailed :
            /\ c.detailed[i].origin = "c1" /\ c.detailed[i].failed
            /\ c.detailed[j].origin = "c2" /\ ~c.detailed[j].failed
       /\ c.resp.body[1].count = 2

\* ------------------------------------------------------ the users asked for

\* The identifiers of the calls user u attended or hosted in the window.
CallsOf(u) ==
  IF u \in ActivityUsers
  THEN {callsAttended(u)[i] : i \in DOMAIN callsAttended(u)} \cup {callsAsHost(u)[i] : i \in DOMAIN callsAsHost(u)}
  ELSE {}

\* The userIds my_calls_range was called with, when it was called with some.
ExplicitUsers(c) ==
  IF c.tool = "my_calls_range" /\ c.args.userIds.ty = "array"
  THEN {c.args.userIds.v[i] : i \in DOMAIN c.args.userIds.v} ELSE {}

\* C7.  my_calls_range called with userIds fetches and returns the calls of
\* those users only: every identifier it collects is one a user asked for
\* attended or hosted, on the fallback path too.
C7_OnlyAskedUsers ==
  \A p \in Procs :
    LET c == call[p]
    IN ExplicitUsers(c) /= {} =>
         \A i \in DOMAIN c.ids : c.ids[i] \in UNION {CallsOf(u) : u \in ExplicitUsers(c)}

\* --------------------------------------------------------- the sort order

\* The start of a record in minutes since the epoch, an absent or
\* unparseable start read as the epoch.
EpochKey(d) ==
  IF Truthy(d.startedAt) /\ getTime(d.startedAt[1]) /= UNDEF THEN getTime(d.startedAt[1])[1] ELSE 0

\* A success of my_calls_range or my_calls_today.
AggregateReturned(c) ==
  c.pc = "done" /\ c.tool \in AggregateTools /\ c.resp.isError = FALSE

\* The start of a record is absent or Date reads it.
Parseable(d) == Truthy(d.startedAt) => getTime(d.startedAt[1]) /= UNDEF

\* C8.  The calls my_calls_range and my_calls_today return are in ascending
\* order of start, an absent or unparseable start counting as the epoch.
C8_SortedByStart ==
  \A p \in Procs :
    LET d == call[p].detailed
    IN AggregateReturned(call[p]) =>
         \A i, j \in DOMAIN d : i < j => EpochKey(d[i]) <= EpochKey(d[j])

\* The same when Date reads every start there is.
C8_SortedWhenParseable ==
  \A p \in Procs :
    LET d == call[p].detailed
    IN AggregateReturned(call[p]) /\ (\A i \in DOMAIN d : Parseable(d[i])) =>
         \A i, j \in DOMAIN d : i < j => EpochKey(d[i]) <= EpochKey(d[j])

\* ------------------------------------------------------------- the clamp

\* The days the clock has shown so far.
DaysSoFar == {formatYmd(d) : d \in Day0..clock}

\* C9.  While my_calls_range has a request in flight (the GET /users of the
\* resolution and of the directory included) and when it has returned, the
\* end of its window is not after today; an end the caller gave that is
\* after today has been replaced by the day the handler read as today; and
\* an activity request carries that end as toDate.
C9_ClampedFirst ==
  \A p \in Procs :
    LET c == call[p]
    IN c.tool = "my_calls_range" /\ c.pc /= "idle" =>
         /\ c.toDate /= UNDEF
         /\ ~StrGreater(c.toDate[1], formatYmd(clock))
         /\ IsString(c.args.toDate) /\ StrGreater(c.args.toDate.v, formatYmd(clock)) =>
              c.toDate[1] \in DaysSoFar
         /\ c.req.path = "/stats/activity/day-by-day" => c.req.toDate = c.toDate

\* my_calls_range was called on 2024-12-31 with toDate 2025-01-01 and is
\* waiting for the first GET /users of the resolution, its window ending
\* on 2024-12-31.
C9_Witness ==
  \E p \in Procs :
    /\ call[p].tool = "my_calls_range" /\ call[p].pc = "getOrResolveMyUserId"
    /\ call[p].pages = 1 /\ clock = Day0
    /\ call[p].args.toDate = AStr(formatYmd(Day0 + 1))
    /\ call[p].toDate = Some(formatYmd(Day0))
    /\ formatYmd(Day0) = <<2024, 12, 31>> /\ formatYmd(Day0 + 1) = <<2025, 1, 1>>

\* ---------------------------------------------------------- the normalizer

\* The first non-empty of a list of optional values, else the last of them.
RECURSIVE FirstTruthy(_)
FirstTruthy(opts) ==
  IF Len(opts) = 1 THEN opts[1]
  ELSE IF Truthy(Head(opts)) THEN Head(opts) ELSE FirstTruthy(Tail(opts))

\* The record normalizeCallRecord reads its fields from.
SourceOf(raw) == IF raw.metaData /= UNDEF THEN raw.metaData[1] ELSE raw.flat

\* A record that carries none of the current names that have a legacy one.
LegacyOnly(src) ==
  \A f \in {"id", "title", "started", "ended", "primaryUserId"} : src[f] = UNDEF

\* The record that carries under the current names what src carries under
\* the legacy ones.
Modern(src) ==
  RawCall([EmptyFlat EXCEPT !.title = src.subject,
                            !.started = FirstTruthy(<<src.startTime, src.startedAt, src.scheduled>>),
                            !.ended = FirstTruthy(<<src.endTime, src.endedAt>>),
                            !.id = src.callId,
                            !.primaryUserId = src.hostUserId,
                            !.duration = src.duration],
          UNDEF)

\* Two optional values are the same, or both are empty or absent.
Same(a, b) == a = b \/ (~Truthy(a) /\ ~Truthy(b))

ExpectedType(name) ==
  CASE name = "list_calls" -> [fromDateTime |-> {"string"}, toDateTime |-> {"string"}]
    [] name = "activity_day_by_day" ->
         [fromDate |-> {"string"}, toDate |-> {"string"}, userIds |-> {"array"}, cursor |-> {"string"}]
    [] name = "retrieve_transcripts" -> [callIds |-> {"array", "string"}]
    [] name = "list_calls_extensive" ->
         [start_date |-> {"string"}, end_date |-> {"string"}, user_id |-> {"string"},
          user_ids |-> {"array"}, userIds |-> {"array"}, text |-> {"string"}]
    [] name = "my_calls_range" ->
         [fromDate |-> {"string"}, toDate |-> {"string"}, daysBack |-> {"number"}, userIds |-> {"array"}]
    [] name = "get_users" -> [name_filter |-> {"string"}]
    [] OTHER -> [cursor |-> {"string"}]

\* A field of the arguments is there with a type its tool does not declare.
WrongType(name, args) ==
  \E f \in DOMAIN ExpectedType(name) : args[f].ty \notin ({"undefined"} \cup ExpectedType(name)[f])

\* The error that names the operation.
InvalidArguments(name) ==
  CASE name = "list_calls" -> "Invalid arguments for list_calls"
    [] name = "list_calls_extensive" -> "Invalid arguments for list_calls_extensive"
    [] name = "activity_day_by_day" -> "Invalid arguments for activity_day_by_day"
    [] name = "my_calls_range" -> "Invalid arguments for my_calls_range"
    [] name = "my_calls_today" -> "Invalid arguments for my_calls_today"
    [] name = "get_users" -> "Invalid arguments for get_users"
    [] OTHER -> "Invalid arguments for retrieve_transcripts"

\* The tools whose handler starts with a type guard.
GuardedTools == {"list_calls", "list_calls_extensive", "retrieve_transcripts"}

\* C11.  An invocation of a supported tool whose arguments carry a field of
\* the wrong type has failed with "Invalid arguments for <tool>": it is
\* never suspended at a request, and it ends with no other response.
C11_InvalidArguments ==
  \A p \in Procs :
    LET c == call[p]
    IN c.tool \in KnownTools /\ WrongType(c.tool, c.args) =>
         /\ c.pc = "done"
         /\ c.raised = Some(InvalidArguments(c.tool))
         /\ c.resp.isError

\* The same, of the tools that have a guard and of the fields the guard reads.
C11_GuardedTools ==
  \A p \in Procs :
    LET c == call[p]
    IN c.tool \in GuardedTools /\ WrongType(c.tool, c.args) =>
         /\ c.pc = "done"
         /\ c.raised = Some(InvalidArguments(c.tool))
         /\ c.resp.isError

\* ------------------------------------------------------------ C12: user ids

\* The tools that take user ids from the caller.
UserTools == {"list_calls_extensive", "activity_day_by_day", "my_calls_range"}

\* The errors of the argument checks.
ArgumentErrors ==
  {Some(InvalidArguments(name)) : name \in KnownTools}
    \cup {Some("fromDate and toDate (YYYY-MM-DD) are required")}

\* The invocation is of a tool that takes user ids and is past the checks of
\* its arguments.
PastChecks(c) == c.tool \in UserTools /\ c.pc /= "idle" /\ c.raised \notin ArgumentErrors

\* The non-empty identifier lists the caller supplied.
SuppliedLists(c) ==
  {c.args[f].v : f \in {g \in (IF c.tool = "list_calls_extensive" THEN {"user_ids", "userIds"}
                                                                ELSE {"userIds"}) :
                          c.args[g].ty = "array" /\ c.args[g].v /= <<>>}}

\* The single identifier the caller supplied (list_calls_extensive has the
\* field), as a set.
SuppliedSingle(c) ==
  IF c.tool = "list_calls_extensive" /\ IsString(c.args.user_id) /\ c.args.user_id.v /= <<>>
  THEN {c.args.user_id.v} ELSE {}

\* The invocation has its user ids without having entered
\* getOrResolveMyUserId: no request for it, no outcome of it, no error of it.
NotResolved(c) == c.pc /= "getOrResolveMyUserId" /\ c.resolved = <<>> /\ c.userIds /= <<>>

\* The invocation has entered getOrResolveMyUserId, and holds no user ids
\* but the one it returned.
Resolved(c) ==
  \/ c.userIds = <<>> /\ (c.pc = "getOrResolveMyUserId" \/ c.pc = "done")
  \/ c.resolved /= <<>> /\ c.resolved[1] = "ok" /\ c.userIds = <<c.resolved[2]>>

\* C12.  A non-empty list of identifiers the caller supplied is the user-id
\* set, and nothing is resolved; with no such list a single identifier the
\* caller supplied is; with neither, the default user is resolved.
C12_Precedence ==
  \A p \in Procs :
    LET c == call[p]
    IN PastChecks(c) =>
         IF SuppliedLists(c) /= {} THEN c.userIds \in SuppliedLists(c) /\ NotResolved(c)
         ELSE IF SuppliedSingle(c) /= {} THEN <<c.userIds[1]>> = c.userIds /\ c.userIds[1] \in SuppliedSingle(c) /\ NotResolved(c)
         ELSE Resolved(c)

\* The list the handler of list_calls_extensive reads: user_ids when it is
\* an array, empty or not, and userIds otherwise.
ListRead(c) ==
  LET a == IF c.tool = "list_calls_extensive" /\ c.args.user_ids.ty = "array"
           THEN c.args.user_ids ELSE c.args.userIds
  IN IF a.ty = "array" /\ a.v /= <<>> THEN {a.v} ELSE {}

\* The same precedence over the list the handler reads.
C12_PrecedenceAsRead ==
  \A p \in Procs :
    LET c == call[p]
    IN PastChecks(c) =>
         IF ListRead(c) /= {} THEN c.userIds \in ListRead(c) /\ NotResolved(c)
         ELSE IF SuppliedSingle(c) /= {} THEN <<c.userIds[1]>> = c.userIds /\ c.userIds[1] \in SuppliedSingle(c) /\ NotResolved(c)
         ELSE Resolved(c)

\* ------------------------------------------------------------ C13: the window

\* A date the caller supplied under a name: a non-empty string.
SuppliedDate(a) == IsString(a) /\ a.v /= <<>>

\* The days the caller asked to look back: the largest whole number of days
\* not above daysBack and not below 1, and 5 when it gave no number.
EffectiveDaysBack(args) ==
  IF args.daysBack.ty /= "number" THEN 5
  ELSE IF args.daysBack.v < args.daysBack.den THEN 1
  ELSE CHOOSE k \in 1..args.daysBack.v :
         k * args.daysBack.den <= args.daysBack.v /\ (k + 1) * args.daysBack.den > args.daysBack.v

\* C13.  my_calls_range starts with this window.  A supplied fromDate is
\* kept, and a missing one is the day daysBack days before today whenever
\* fromDate or toDate is missing; a supplied toDate is kept, and a missing
\* one is today; the end so found is clamped to today when it is later.
\* With both dates supplied daysBack has no part in it.
C13_Window ==
  [][\A p \in Procs :
       call[p].pc = "idle" /\ call'[p].tool = "my_calls_range" =>
         LET c == call'[p]
             n == EffectiveDaysBack(c.args)
             end == IF SuppliedDate(c.args.toDate) THEN c.args.toDate.v ELSE formatYmd(clock)
         IN /\ c.fromDate = Some(IF SuppliedDate(c.args.fromDate) THEN c.args.fromDate.v
                                                                   ELSE formatYmd(clock - n))
            /\ c.toDate = Some(IF LexLess(formatYmd(clock'), end) THEN formatYmd(clock') ELSE end)]_vars

\* An invocation with daysBack 2.5 and no dates has the window of the two
\* days before today; one with daysBack 0 the window of one day; one with
\* both dates and daysBack 3 the window of its dates.
C13_Witness ==
  \E p \in Procs :
    LET c == call[p]
    IN /\ c.tool = "my_calls_range" /\ c.pc = "activity"
       /\ \/ c.args.daysBack = ANumOver(5, 2) /\ c.fromDate = Some(formatYmd(Day0 - 2))
                                                /\ c.toDate = Some(formatYmd(Day0))
          \/ c.args.daysBack = ANum(0) /\ c.fromDate = Some(formatYmd(clock - 1)) /\ clock = Day0 + 1

\* C13.  With fromDate or toDate missing, the window of my_calls_range is
\* the daysBack days before today: fromDate = today - daysBack and
\* toDate = today, today being the day at either reading of the clock.
C13_DerivedWhenEitherMissing ==
  [][\A p \in Procs :
       call[p].pc = "idle" /\ call'[p].tool = "my_calls_range" =>
         LET c == call'[p]
             n == EffectiveDaysBack(c.args)
         IN ~(SuppliedDate(c.args.fromDate) /\ SuppliedDate(c.args.toDate)) =>
              \E today \in {clock, clock'} :
                 c.fromDate = Some(formatYmd(today - n)) /\ c.toDate = Some(formatYmd(today))]_vars

\* ------------------------------------------------------------ C14: the retry

\* The requests for activity the invocation has sent: those that have come
\* back and the one in flight.
ActivityRequests(c) ==
  [i \in DOMAIN c.heard |-> c.heard[i].req]
    \o (IF c.pc \in {"activity", "activityRetry"} THEN <<c.req>> ELSE <<>>)

\* The first request has come back with no per-user activity.
FirstEmpty(c) == c.heard /= <<>> /\ c.heard[1].ok /\ NoActivity(c.heard[1].users)

\* The invocation holds the identifiers of the last answer.
UsesLast(c) == c.ids = collectCallIdsFromActivities(c.heard[Len(c.heard)].users)

\* The retry of an invocation, as the claim has it.
RetriesOnce(c) ==
  LET reqs == ActivityRequests(c)
  IN /\ Len(reqs) <= 2
     /\ Len(reqs) = 2 <=> FirstEmpty(c)
     /\ Len(reqs) = 2 => reqs[2] = [reqs[1] EXCEPT !.userIds = UNDEF] /\ reqs[1].userIds /= UNDEF
     /\ c.heard /= <<>> /\ c.pc \in {"ensureUserCache", "getCall"} => UsesLast(c)
     /\ c.pc = "done" /\ ~c.resp.isError => c.heard /= <<>> /\ UsesLast(c)

\* C14.  An invocation of my_calls_range or my_calls_today has sent at
\* most two requests for activity; it has sent the second if and only if
\* the first came back with no per-user activity; the second is the first
\* without its user ids; the identifiers it goes on with are those of the
\* last answer.
C14_RetryOnce ==
  \A p \in Procs : call[p].tool \in AggregateTools => RetriesOnce(call[p])

\* The same, of my_calls_range.
C14_RangeRetriesOnce ==
  \A p \in Procs : call[p].tool = "my_calls_range" => RetriesOnce(call[p])

\* my_calls_range has gone on after two empty answers.
C14_TwoEmpty ==
  \E p \in Procs :
    LET c == call[p]
    IN /\ c.tool = "my_calls_range" /\ c.pc = "done" /\ ~c.resp.isError
       /\ Len(c.heard) = 2 /\ NoActivity(c.heard[2].users)

\* ------------------------------------------------------------ C15: the directory

\* In this step the ensureUserCache of slot p reads its last page and returns.
LoadCompletes(p) ==
  /\ call[p].pc = "ensureUserCache"
  /\ call'[p].pc /= "ensureUserCache"
  /\ call'[p].raised = <<>>

\* In this step slot p calls ensureUserCache and it sends its first request.
LoadStarts(p) == call[p].pc /= "ensureUserCache" /\ call'[p].pc = "ensureUserCache"

\* The hosts of the result of c are shown by the name the directory holds,
\* and by their identifier when it holds none.
HostsFrom(c, cache) ==
  \A i \in DOMAIN c.resp.body[1].calls :
    LET e == c.resp.body[1].calls[i]
    IN TruthySeq(e.hostUserId) =>
         e.hostName = (IF e.hostUserId[1] \in DOMAIN cache THEN Some(cache[e.hostUserId[1]])
                                                             ELSE e.hostUserId)

\* C15.  Once a load of the directory has completed (usersLoaded), the
\* directory stays loaded and as it is, no call of ensureUserCache starts
\* a load, no load completes a second time, and an invocation that returns
\* shows a host the directory does not hold by its identifier.
C15_BuiltOnce ==
  [][usersLoaded =>
       /\ usersLoaded' /\ userCache' = userCache
       /\ \A p \in Procs :
            /\ ~LoadStarts(p)
            /\ ~LoadCompletes(p)
            /\ call[p].pc /= "done" /\ call'[p].pc = "done" /\ ~call'[p].resp.isError
                 /\ call'[p].tool \in AggregateTools => HostsFrom(call'[p], userCache)]_vars

\* An invocation has returned a call whose host the loaded directory does
\* not hold, shown by its identifier.
C15_AbsentHost ==
  \E p \in Procs :
    LET c == call[p]
    IN /\ usersLoaded /\ c.pc = "done" /\ ~c.resp.isError /\ c.tool \in AggregateTools
       /\ \E i \in DOMAIN c.resp.body[1].calls :
            LET e == c.resp.body[1].calls[i]
            IN TruthySeq(e.hostUserId) /\ e.hostUserId[1] \notin DOMAIN userCache
               /\ e.hostName = e.hostUserId

\* ------------------------------------------------------------ C16: one at a time

\* The invocation of slot p is suspended at a network call.
Suspended(p) == call[p].pc \in Awaits

\* C16.  No two invocations are suspended at a network call at the same
\* time: an invocation is dispatched only when every other has run to
\* completion, so no two loads of the directory and no two lookups of the
\* default user are in flight together.
C16_OneAtATime ==
  \A p, q \in Procs : p /= q => ~(Suspended(p) /\ Suspended(q))

\* Two loads of the directory are in flight together.
C16_TwoLoads ==
  \E p, q \in Procs :
    /\ p /= q
    /\ call[p].pc = "ensureUserCache" /\ call[q].pc = "ensureUserCache"

\* ------------------------------------------------------------ C17: the default user, set

\* C17.  Once cachedUserId holds a non-empty identifier, every step leaves
\* it that identifier.
C17_ImmutableOnceSet ==
  [][TruthySeq(cachedUserId) => cachedUserId' = cachedUserId]_vars

\* The same, of the steps taken while no other lookup of the default user
\* is in flight.
C17_ImmutableWhenAlone ==
  [][TruthySeq(cachedUserId) /\ (\A p \in Procs : call[p].pc /= "getOrResolveMyUserId")
       => cachedUserId' = cachedUserId]_vars

\* ------------------------------------------------------------ C18: the .env file

\* The text has a GONG_USER_ID line.
HasIdLine(text) == \E i \in DOMAIN text.lines : text.lines[i].key = "GONG_USER_ID"

\* The text holds the identifier already: it has GONG_USER_ID lines, and
\* each reads GONG_USER_ID=<id>.
HoldsId(text, id) ==
  /\ HasIdLine(text)
  /\ \A i \in DOMAIN text.lines :
       text.lines[i].key = "GONG_USER_ID" => text.lines[i] = EnvLine(0, "GONG_USER_ID", id)

\* The lines of new are those of old, with each GONG_USER_ID line reading
\* GONG_USER_ID=<id>, and one such line appended when old has none.
LinesRewritten(old, new, id) ==
  /\ Len(new.lines) = Len(old.lines) + (IF HasIdLine(old) THEN 0 ELSE 1)
  /\ \A i \in DOMAIN old.lines :
       new.lines[i] = (IF old.lines[i].key = "GONG_USER_ID" THEN EnvLine(0, "GONG_USER_ID", id)
                                                             ELSE old.lines[i])
  /\ ~HasIdLine(old) => new.lines[Len(new.lines)] = EnvLine(0, "GONG_USER_ID", id)

\* The line endings of old are those of new, and a line ending new adds is
\* one of the style of old.
EndingsKept(old, new) ==
  /\ \A i \in DOMAIN old.eols : new.eols[i] = old.eols[i]
  /\ \A i \in DOMAIN new.eols : old.eols /= <<>> => \E j \in DOMAIN old.eols : new.eols[i] = old.eols[j]

\* In this step the getOrResolveMyUserId of slot p returns identifier id.
ResolvesNow(p, id) ==
  /\ call[p].pc = "getOrResolveMyUserId"
  /\ call'[p].resolved = <<"ok", id>>

\* C18.  When getOrResolveMyUserId resolves the identifier, the .env file
\* is left as it is when it does not exist or holds the identifier
\* already; when it is rewritten, its other lines and its line endings are
\* kept and its GONG_USER_ID line holds the identifier (appended when there
\* was none); and the resolution returns whether or not the file was
\* written.
C18_Persist ==
  [][\A p \in Procs : \A id \in {<<2>>, <<1, 0>>} :
       ResolvesNow(p, id) =>
         /\ envFile = UNDEF => envFile' = UNDEF
         /\ envFile /= UNDEF /\ HoldsId(envFile[1], id) => envFile' = envFile
         /\ envFile' /= envFile =>
              /\ LinesRewritten(envFile[1], envFile'[1], id)
              /\ EndingsKept(envFile[1], envFile'[1])]_vars

\* The same, but that the line endings of a rewritten file are all os.EOL,
\* and that a file is left as it is only when the rewritten text is the
\* text it has.
C18_PersistToOsEol ==
  [][\A p \in Procs : \A id \in {<<2>>, <<1, 0>>} :
       ResolvesNow(p, id) =>
         /\ envFile = UNDEF => envFile' = UNDEF
         /\ envFile /= UNDEF /\ HoldsId(envFile[1], id)
              /\ (\A i \in DOMAIN envFile[1].eols : envFile[1].eols[i] = OsEol) => envFile' = envFile
         /\ envFile' /= envFile =>
              /\ LinesRewritten(envFile[1], envFile'[1], id)
              /\ \A i \in DOMAIN envFile'[1].eols : envFile'[1].eols[i] = OsEol]_vars

\* The identifier was resolved and a file of two lines without a
\* GONG_USER_ID line has a third.
C18_Appended ==
  /\ cachedUserId = Some(<<2>>) /\ env.GONG_USER_ID = UNDEF
  /\ envFile /= UNDEF
  /\ Len(envFile[1].lines) = 3
  /\ envFile[1].lines[3] = EnvLine(0, "GONG_USER_ID", <<2>>)

\* A second lookup has resolved the identifier the file holds already.
C18_HeldAlready ==
  \E p, q \in Procs :
    /\ p /= q /\ envFile /= UNDEF /\ HoldsId(envFile[1], <<2>>)
    /\ call[p].resolved = <<"ok", <<2>>>> /\ call[p].seen /= <<>>
    /\ call[q].resolved = <<"ok", <<2>>>> /\ call[q].seen /= <<>>

\* ------------------------------------------------------------ C19: callId

\* The entries of the result of c that come from a fetch that succeeded.
Fetched(c) == {j \in DOMAIN c.detailed : ~c.detailed[j].failed}

\* C19.  In the result of my_calls_range and my_calls_today, every entry
\* that comes from a successful GET /calls/{id} carries a callId, whatever
\* the shape of the detail.
C19_CallIdPresent ==
  \A p \in Procs :
    LET c == call[p]
    IN c.pc = "done" /\ c.tool \in AggregateTools /\ ~c.resp.isError =>
         \A j \in Fetched(c) : Truthy(c.resp.body[1].calls[j].callId)

\* The same, of the details that carry an id where normalizeCallRecord
\* reads it: the callId is that id.
C19_CallIdAsCarried ==
  \A p \in Procs :
    LET c == call[p]
    IN c.pc = "done" /\ c.tool \in AggregateTools /\ ~c.resp.isError =>
         \A j \in Fetched(c) :
           \/ c.resp.body[1].calls[j].callId = Some(c.detailed[j].origin)
           \/ ~Truthy(c.resp.body[1].calls[j].callId)
                /\ \E raw \in DetailPool(c.detailed[j].origin) :
                     /\ ~Truthy(SourceOf(raw).id)
                     /\ Entry(normalizeCallRecord(raw), c.detailed[j].origin, FALSE) = c.detailed[j]

\* ------------------------------------------------------------ C20: the name compared

\* A name as the comparison takes it: trimmed, in lower case.
Folded(name) == ToLowerCase(Trim(name))

\* The users served so far to the lookup of c.
SeenBy(c) == {Flatten(c.seen)[i] : i \in DOMAIN Flatten(c.seen)}

\* The users the lookup of c has pushed to matches.
MatchedBy(c) == {c.matches[i] : i \in DOMAIN c.matches}

\* u is matched by the lookup of c if and only if the display name the
\* directory gives u is the configured name, folded.
MatchesByDisplayName(c, u) ==
  u \in MatchedBy(c) <=> Folded(DisplayName(u)) = Folded(env.GONG_USER_FULL_NAME[1])

\* C20.  Between two pages of the lookup of the default user, the users
\* matched are those users served whose directory display name equals the
\* configured name, compared trimmed and without case.
C20_SameChain ==
  \A p \in Procs :
    LET c == call[p]
    IN c.pc = "getOrResolveMyUserId" => \A u \in SeenBy(c) : MatchesByDisplayName(c, u)

\* The same, of the users that carry one name only: first and last name
\* and neither fullName nor name, or fullName or name and neither first nor
\* last name.
C20_SameWhenOneName ==
  \A p \in Procs :
    LET c == call[p]
    IN c.pc = "getOrResolveMyUserId" =>
         \A u \in SeenBy(c) :
           (TruthySeq(u.fullName) \/ TruthySeq(u.name)) /= (TruthySeq(u.firstName) \/ TruthySeq(u.lastName))
             => MatchesByDisplayName(c, u)

\* The lookup has been served a user with first and last names only and
\* has matched it, and asks for the next page.
C20_MatchedByComposite ==
  \E p \in Procs :
    /\ call[p].pc = "getOrResolveMyUserId"
    /\ UserA \in SeenBy(call[p]) /\ UserA \in MatchedBy(call[p])

\* ------------------------------------------------------------ C21: signing

\* The payload a sent request is to be signed over: the JSON text of its
\* body if it has one, else of its query parameters if it has any, else the
\* empty string.
PayloadOf(m) ==
  IF m.body /= UNDEF THEN JsonStringify(m.body[1])
  ELSE IF m.query /= <<>> THEN JsonStringify(m.query)
  ELSE <<>>

\* What each sent request signs, read from its signature.
Signed(m) == m.signature.stringToSign

\* C21: every request the client sends carries a signature over its own
\* method, its own path, the timestamp of its timestamp header, and the
\* JSON text of its body, else of its query parameters, else the empty
\* string; a read without query parameters signs the empty string.
C21_Signature ==
  fout /= <<>> =>
    Signed(fout[1]) = <<fout[1].method, fout[1].path, fout[1].timestamp, PayloadOf(fout[1])>>

\* The methods of the client that hand request a params object, also when
\* they put nothing into it.
PassesParams == {"listCalls", "getUsers"}

\* As the code signs: method, path and timestamp are the request's own, and
\* the payload is the JSON text of the body, else of the params object the
\* method handed over, "{}" when nothing was put into it, else the empty
\* string (getCall alone).
C21_SignedAsPassed ==
  fout /= <<>> =>
    /\ SubSeq(Signed(fout[1]), 1, 3) = <<fout[1].method, fout[1].path, fout[1].timestamp>>
    /\ Signed(fout[1])[4] =
         (IF fout[1].body /= UNDEF THEN JsonStringify(fout[1].body[1])
          ELSE IF fin[1].method \in PassesParams THEN JsonStringify(fout[1].query)
          ELSE <<>>)

\* list_calls without dates, sent on a later day than the call was set up:
\* no query string, and "{}" signed.
C21_EmptyQuery ==
  /\ fout /= <<>>
  /\ fin[1].method = "listCalls"
  /\ fout[1].query = <<>>
  /\ fout[1].timestamp = toISOString(Day0 + 1)
  /\ Signed(fout[1])[4] = <<"{", "}">>

\* ------------------------------------------- C22: loaded means fully loaded

\* The load the invocation c has completed read the last page of the list:
\* the page it ended on carried no cursor.
ReachedFinalPage(c) == c.loaded[1].cursor = 0

\* The invocation in slot p completes a load of the directory in this step.
CompletesLoad(p) == call[p].loaded = <<>> /\ call'[p].loaded /= <<>>

\* C22: the directory is marked loaded only by a load that reached the final
\* page of the user list: in every step that sets usersLoaded, an invocation
\* completes a load that has read a page without a cursor, and the directory
\* then holds an entry for every identified user on the pages of the list.
C22_LoadedIsComplete ==
  [][(~usersLoaded /\ usersLoaded') =>
       \E p \in Procs :
         /\ CompletesLoad(p)
         /\ ReachedFinalPage(call'[p])
         /\ call'[p].loaded[1].ids \subseteq DOMAIN userCache']_vars

\* As the code marks it: by a load that was served every page it asked for
\* and ended on a page without a cursor or on its fiftieth page; the
\* directory then holds an entry for every identified user on the pages read.
C22_LoadedAfterLastOrCap ==
  [][(~usersLoaded /\ usersLoaded') =>
       \E p \in Procs :
         /\ CompletesLoad(p)
         /\ \/ ReachedFinalPage(call'[p])
            \/ call[p].safety + 1 = SafetyCap
         /\ call'[p].loaded[1].ids \subseteq DOMAIN userCache']_vars

\* A load has ended on its fiftieth page with a cursor to the next, and the
\* directory is marked loaded.
C22_CappedLoad ==
  \E p \in Procs :
    /\ call[p].loaded /= <<>>
    /\ ~ReachedFinalPage(call[p])
    /\ usersLoaded

\* ------------------------------------- C23: a failed lookup marks nothing

\* In this step the lookup of the default user in slot p ends without a
\* user: a request of it has failed, or no user has matched.
ResolveFails(p) ==
  /\ call[p].pc = "getOrResolveMyUserId"
  /\ call'[p].pc = "done"
  /\ call'[p].resolved \in {<<>>, <<"none">>}

\* In this step a request of the load of the directory in slot p fails.
EnsureFails(p) == call[p].pc = "ensureUserCache" /\ call'[p].raised /= <<>>

\* In this step slot p takes up an invocation that needs the default user
\* while none is held and a full name is configured.
NeedsDefaultUser(p) ==
  /\ call[p].pc = "idle"
  /\ call'[p].tool = "my_calls_today"
  /\ ~TruthySeq(cachedUserId)
  /\ TruthySeq(env.GONG_USER_FULL_NAME)

\* In this step the aggregate read in slot p comes to ensureUserCache()
\* while the directory is not marked loaded.
NeedsDirectory(p) ==
  /\ call[p].pc \in {"activity", "activityRetry"}
  /\ call'[p].pc \notin {"activity", "activityRetry"}
  /\ call'[p].raised = <<>>
  /\ ~usersLoaded

\* The lookup of the default user, and the load of the directory, at their
\* first request: GET /users without a cursor, nothing gathered yet.
ResolveFromFirstPage(c) ==
  c.pc = "getOrResolveMyUserId" /\ c.req = GetUsersReq(0) /\ c.matches = <<>> /\ c.pages = 1

EnsureFromFirstPage(c) ==
  c.pc = "ensureUserCache" /\ c.req = GetUsersReq(0) /\ c.safety = 0 /\ c.pages = 1

\* C23: a failed lookup never marks a cache as populated. When a request of
\* the default-user lookup fails or no user matches, cachedUserId and the
\* .env file are left as they were and the invocation answers with an
\* error; when a request of the directory load fails, usersLoaded is left
\* as it was and the invocation answers with an error; and an invocation that
\* then needs the default user or the directory starts its lookup with the
\* first page.
C23_FailedLookup ==
  [][\A p \in Procs :
       /\ ResolveFails(p) =>
            /\ cachedUserId' = cachedUserId
            /\ envFile' = envFile
            /\ call'[p].resp.isError
       /\ EnsureFails(p) =>
            /\ usersLoaded' = usersLoaded
            /\ call'[p].pc = "done" /\ call'[p].resp.isError
       /\ NeedsDefaultUser(p) => ResolveFromFirstPage(call'[p])
       /\ NeedsDirectory(p) => EnsureFromFirstPage(call'[p])]_vars

\* An invocation loads the directory from its first page after an earlier
\* load has put users into it and failed on a later page.
C23_Witness ==
  \E p \in Procs :
    /\ EnsureFromFirstPage(call[p])
    /\ ~usersLoaded
    /\ userCache /= <<>>

\* The lookup of the default user has found a match on its first page and
\* failed on its second request: no user is held, and the answer is an error.
C23_FailedAfterMatch ==
  \E p \in Procs :
    /\ call[p].pc = "done" /\ call[p].resp.isError
    /\ call[p].raised /= <<>> /\ call[p].raised[1] \in Failures
    /\ call[p].matches /= <<>> /\ call[p].resolved = <<>>
    /\ cachedUserId = UNDEF

=============================================================================
